---- MODULE Spec2Model ----
(***************************************************************************)
(* A model of the value-substitution and pagination core of the ThanoSQL   *)
(* Python SDK: thanosql/_util.py (value serializer, placeholder splitter,  *)
(* paginator, renderer/assembler) and QueryService.execute_values, which   *)
(* validates its arguments, calls fill_query_placeholder and posts the     *)
(* completed query.                                                        *)
(*                                                                         *)
(* Python strings are sequences of one-character strings, so that split,   *)
(* replace and join are computed character by character.  Python values    *)
(* are tagged records [t |-> type, v |-> payload].                         *)
(***************************************************************************)
EXTENDS Integers, Sequences, FiniteSets, TLC

VARIABLES
    pc,                    \* position of the modelled call
    val,                   \* _to_postgresql_value: the argument
    helper_val,            \* _to_postgresql_value: val after line 48
    sql,                   \* _to_postgresql_value: the returned string
    query,                 \* the query string with the placeholder
    values,                \* the rows
    template,              \* the row template, or None
    page_size,             \* the page size
    split_query,           \* fill_query_placeholder: the four segments
    completed_query_list,  \* fill_query_placeholder: statements so far
    val_query_list,        \* fill_query_placeholder: rendered rows of the page
    row,                   \* fill_query_placeholder: rows of the page done so far
    gen,                   \* the _paginate generator: [pc, it, i, page]
    pages,                 \* history: the pages the generator has yielded
    result,                \* what the call returned or raised
    requests,              \* the query strings posted by client._request
    calls,                 \* concurrent invocations: the frame of each fill_query_placeholder
    page_var,              \* concurrent invocations: the page list of each generator
    response,              \* _request: what requests' call gave
    stream,                \* _request: the stream argument
    kwargs,                \* the keyword arguments of a service call
    environ,               \* os.environ: the API_URL and API_TOKEN settings
    ws                     \* the operations made on the magic's websocket

vars == <<pc, val, helper_val, sql, query, values, template, page_size,
          split_query, completed_query_list, val_query_list, row, gen, pages,
          result, requests,
          calls, page_var,
          response, stream,
          kwargs,
          environ, ws>>

(***************************************************************************)
(* Python primitives                                                       *)
(***************************************************************************)

None == [t |-> "none"]

\* os.environ with neither API_URL nor API_TOKEN set
NoSettings == [API_URL |-> None, API_TOKEN |-> None]
PyStr(s) == [t |-> "str", v |-> s]
PyInt(n) == [t |-> "int", v |-> n]
PyBool(b) == [t |-> "bool", v |-> b]
PyList(l) == [t |-> "list", v |-> l]
PyTuple(l) == [t |-> "tuple", v |-> l]
\* a dict keeps its insertion order: a sequence of <<key, value>> pairs
PyDict(kv) == [t |-> "dict", v |-> kv]
\* an object of a type the serializer and json have no rule for, with the
\* texts of its str() and repr()
PyOther(s, r) == [t |-> "other", v |-> s, r |-> r]

\* an exception of the given class with its message; nothing is returned
Raise(cls, msg) == [t |-> "raise", v |-> cls, msg |-> msg]

\* s[i:] starts with pat
StartsWith(s, i, pat) ==
    /\ i + Len(pat) - 1 <= Len(s)
    /\ SubSeq(s, i, i + Len(pat) - 1) = pat

RECURSIVE SplitFrom(_, _, _, _)
SplitFrom(s, sep, i, cur) ==
    IF i > Len(s) THEN <<cur>>
    ELSE IF StartsWith(s, i, sep)
         THEN <<cur>> \o SplitFrom(s, sep, i + Len(sep), <<>>)
         ELSE SplitFrom(s, sep, i + 1, Append(cur, s[i]))

\* s.split(sep) for a non-empty sep: left to right, non-overlapping
Split(s, sep) == SplitFrom(s, sep, 1, <<>>)

RECURSIVE Join(_, _)
\* sep.join(parts)
Join(sep, parts) ==
    IF Len(parts) = 0 THEN <<>>
    ELSE IF Len(parts) = 1 THEN parts[1]
    ELSE parts[1] \o sep \o Join(sep, Tail(parts))

\* s.replace(old, new) for a non-empty old: every occurrence, left to right
Replace(s, old, new) == Join(new, Split(s, old))

Digit(d) == <<"0", "1", "2", "3", "4", "5", "6", "7", "8", "9">>[d + 1]

RECURSIVE NatStr(_)
NatStr(n) == IF n < 10 THEN <<Digit(n)>> ELSE NatStr(n \div 10) \o <<Digit(n % 10)>>

\* str(n) of an int
IntStr(n) == IF n < 0 THEN <<"-">> \o NatStr(-n) ELSE NatStr(n)

Contains(s, c) == \E i \in 1..Len(s) : s[i] = c

\* repr(s) of a str: double quotes when s holds ' and no ", else single quotes
StrRepr(s) ==
    LET esc == Replace(s, <<"\\">>, <<"\\", "\\">>)
    IN  IF Contains(s, "'") /\ ~Contains(s, "\"")
        THEN <<"\"">> \o esc \o <<"\"">>
        ELSE <<"'">> \o Replace(esc, <<"'">>, <<"\\", "'">>) \o <<"'">>

RECURSIVE PyRepr(_)
\* repr(v); str(v) differs from it only for a str
PyRepr(v) ==
    CASE v.t = "none" -> <<"N", "o", "n", "e">>
      [] v.t = "bool" -> IF v.v THEN <<"T", "r", "u", "e">>
                         ELSE <<"F", "a", "l", "s", "e">>
      [] v.t = "int" -> IntStr(v.v)
      [] v.t = "str" -> StrRepr(v.v)
      [] v.t = "other" -> v.r
      [] v.t = "list" ->
            <<"[">> \o Join(<<",", " ">>, [k \in 1..Len(v.v) |-> PyRepr(v.v[k])])
                    \o <<"]">>
      [] v.t = "tuple" ->
            <<"(">> \o Join(<<",", " ">>, [k \in 1..Len(v.v) |-> PyRepr(v.v[k])])
                    \o (IF Len(v.v) = 1 THEN <<",", ")">> ELSE <<")">>)
      [] v.t = "dict" ->
            <<"{">> \o Join(<<",", " ">>,
                        [k \in 1..Len(v.v) |->
                            PyRepr(PyStr(v.v[k][1])) \o <<":", " ">> \o PyRepr(v.v[k][2])])
                    \o <<"}">>

\* str(v)
PyStrOf(v) == IF v.t \in {"str", "other"} THEN v.v ELSE PyRepr(v)

\* the body of a JSON string: json.dumps escapes " and \ (the model's
\* alphabet holds no control or non-ASCII character)
JsonEscape(s) ==
    Replace(Replace(s, <<"\\">>, <<"\\", "\\">>), <<"\"">>, <<"\\", "\"">>)

RECURSIVE JsonSerializable(_)
\* json.dumps(v) has an encoding for v: it raises TypeError otherwise
JsonSerializable(v) ==
    CASE v.t \in {"none", "bool", "int", "str"} -> TRUE
      [] v.t \in {"list", "tuple"} -> \A k \in 1..Len(v.v) : JsonSerializable(v.v[k])
      [] v.t = "dict" -> \A k \in 1..Len(v.v) : JsonSerializable(v.v[k][2])
      [] OTHER -> FALSE

NotSerializable == Raise("TypeError", "Object of type Decimal is not JSON serializable")

\* the first exception of a sequence of results, in order
FirstRaise(rs) == rs[CHOOSE k \in 1..Len(rs) :
                        /\ rs[k].t = "raise"
                        /\ \A j \in 1..(k - 1) : rs[j].t # "raise"]

AnyRaise(rs) == \E k \in 1..Len(rs) : rs[k].t = "raise"

RECURSIVE json_dumps(_)
\* json.dumps(v) of a serializable v, with its default separators ", " and ": "
json_dumps(v) ==
    CASE v.t = "none" -> <<"n", "u", "l", "l">>
      [] v.t = "bool" -> IF v.v THEN <<"t", "r", "u", "e">>
                         ELSE <<"f", "a", "l", "s", "e">>
      [] v.t = "int" -> IntStr(v.v)
      [] v.t = "str" -> <<"\"">> \o JsonEscape(v.v) \o <<"\"">>
      [] v.t \in {"list", "tuple"} ->
            <<"[">> \o Join(<<",", " ">>, [k \in 1..Len(v.v) |-> json_dumps(v.v[k])])
                    \o <<"]">>
      [] v.t = "dict" ->
            <<"{">> \o Join(<<",", " ">>,
                        [k \in 1..Len(v.v) |->
                            <<"\"">> \o JsonEscape(v.v[k][1]) \o <<"\"">>
                            \o <<":", " ">> \o json_dumps(v.v[k][2])])
                    \o <<"}">>

(***************************************************************************)
(* The value serializer                                                    *)
(***************************************************************************)

\* the list shown by str(), which quotes its str elements again
StringifyListByStr(v) == PyStrOf(v)

RECURSIVE _stringify_list(_)
_stringify_list(v) ==
    IF v.t = "list"
    THEN <<"[">> \o Join(<<",", " ">>, [k \in 1..Len(v.v) |-> _stringify_list(v.v[k])])
                 \o <<"]">>
    ELSE PyStrOf(v)

\* the string rule without the doubling of quotes
QuoteStrNotDoubled(s) ==
    <<"'">> \o Replace(s, <<"\\", "'">>, <<"'">>) \o <<"'">>

\* the string rule with quotes escaped in the C style
QuoteStrBackslashed(s) ==
    <<"'">> \o Replace(s, <<"'">>, <<"\\", "'">>) \o <<"'">>

\* lines 39-41: the string rule
QuoteStr(s) ==
    LET quoted_val == Replace(Replace(s, <<"\\", "'">>, <<"'">>), <<"'">>, <<"'", "'">>)
    IN  <<"'">> \o quoted_val \o <<"'">>

RECURSIVE HelperWithoutNull(_)
\* the helper without the None rule of lines 25-26
HelperWithoutNull(v) ==
    IF v.t = "list"
    THEN LET items == [k \in 1..Len(v.v) |-> HelperWithoutNull(v.v[k])]
         IN  IF AnyRaise(items) THEN FirstRaise(items) ELSE PyList(items)
    ELSE IF v.t = "dict" /\ ~JsonSerializable(v) THEN NotSerializable
    ELSE LET w == IF v.t = "dict" THEN PyStr(json_dumps(v)) ELSE v
         IN  IF w.t = "str" THEN PyStr(QuoteStr(w.v))
             ELSE PyStr(PyStrOf(w))

RECURSIVE HelperDictByStr(_)
\* the helper with str(val) for line 31
HelperDictByStr(v) ==
    IF v.t = "list"
    THEN LET items == [k \in 1..Len(v.v) |-> HelperDictByStr(v.v[k])]
         IN  IF AnyRaise(items) THEN FirstRaise(items) ELSE PyList(items)
    ELSE IF v.t = "none" THEN PyStr(<<"N", "U", "L", "L">>)
    ELSE IF v.t = "dict" /\ ~JsonSerializable(v) THEN NotSerializable
    ELSE LET w == IF v.t = "dict" THEN PyStr(PyStrOf(v)) ELSE v
         IN  IF w.t = "str" THEN PyStr(QuoteStr(w.v))
             ELSE PyStr(PyStrOf(w))

RECURSIVE _to_postgresql_value_helper(_)
\* returns a str, or a list of what it returns, or the exception raised:
\* json.dumps raises TypeError for a dict that holds an object it cannot
\* encode, and the exception ends the list comprehension of line 22
_to_postgresql_value_helper(v) ==
    IF v.t = "list"
    THEN LET items == [k \in 1..Len(v.v) |-> _to_postgresql_value_helper(v.v[k])]
         IN  IF AnyRaise(items) THEN FirstRaise(items) ELSE PyList(items)
    ELSE IF v.t = "none" THEN PyStr(<<"N", "U", "L", "L">>)
    ELSE IF v.t = "dict" /\ ~JsonSerializable(v) THEN NotSerializable
    ELSE LET w == IF v.t = "dict" THEN PyStr(json_dumps(v)) ELSE v
         IN  IF w.t = "str" THEN PyStr(QuoteStr(w.v))
             ELSE PyStr(PyStrOf(w))

RECURSIVE DeepEmpty(_)
\* a list that holds no leaf at any depth
DeepEmpty(h) == h.t = "list" /\ \A k \in 1..Len(h.v) : DeepEmpty(h.v[k])

\* lines 53-58 with the '{}' notation for every list without a leaf
ArrayOrValueDeepEmpty(h) ==
    IF h.t = "list"
    THEN IF DeepEmpty(h) THEN <<"'", "{", "}", "'">>
         ELSE <<"A", "R", "R", "A", "Y">> \o _stringify_list(h)
    ELSE h.v

\* lines 53-58, on the helper's result
ArrayOrValue(h) ==
    IF h.t = "list"
    THEN IF Len(h.v) = 0 THEN <<"'", "{", "}", "'">>
         ELSE <<"A", "R", "R", "A", "Y">> \o _stringify_list(h)
    ELSE h.v

\* the str returned for a val on which the helper does not raise
_to_postgresql_value(v) == ArrayOrValue(_to_postgresql_value_helper(v))

(***************************************************************************)
(* The placeholder splitter                                                *)
(***************************************************************************)

Placeholder == <<"{", "{", " ", "v", "a", "l", " ", "}", "}">>
Semicolon == <<";">>

\* lines 74-86 with the first fragment of the left part taken as the prefix
SegmentsFirstAsPrefix(split_val) ==
    LET split_pre == Split(split_val[1], Semicolon)
        split_post == Split(split_val[2], Semicolon)
    IN  PyList(<<
            IF Len(split_pre) > 1
            THEN PyStr(Join(Semicolon, SubSeq(split_pre, 1, Len(split_pre) - 1)))
            ELSE None,
            PyStr(split_pre[1]),
            PyStr(split_post[1]),
            IF Len(split_post) > 1
            THEN PyStr(Join(Semicolon, SubSeq(split_post, 2, Len(split_post))))
            ELSE None >>)

\* lines 74-86 with an outer group that is always a str, empty when the
\* part holds no ';'
SegmentsEmptyNotAbsent(split_val) ==
    LET split_pre == Split(split_val[1], Semicolon)
        split_post == Split(split_val[2], Semicolon)
    IN  PyList(<<
            PyStr(Join(Semicolon, SubSeq(split_pre, 1, Len(split_pre) - 1))),
            PyStr(split_pre[Len(split_pre)]),
            PyStr(split_post[1]),
            PyStr(Join(Semicolon, SubSeq(split_post, 2, Len(split_post)))) >>)

\* lines 74-86: the four segments [before, prefix, suffix, after]
Segments(split_val) ==
    LET split_pre == Split(split_val[1], Semicolon)
        split_post == Split(split_val[2], Semicolon)
    IN  PyList(<<
            IF Len(split_pre) > 1
            THEN PyStr(Join(Semicolon, SubSeq(split_pre, 1, Len(split_pre) - 1)))
            ELSE None,
            PyStr(split_pre[Len(split_pre)]),
            PyStr(split_post[1]),
            IF Len(split_post) > 1
            THEN PyStr(Join(Semicolon, SubSeq(split_post, 2, Len(split_post))))
            ELSE None >>)

\* _split_query accepting any template that holds the placeholder
SplitQueryAtLeastOne(q) ==
    LET split_val == Split(q, Placeholder)
    IN  IF Len(split_val) < 2
        THEN Raise("ThanoSQLValueError",
                   "One and only one {{ val }} placeholder is required")
        ELSE Segments(split_val)

\* the four segments, or the exception raised
_split_query(q) ==
    LET split_val == Split(q, Placeholder)
    IN  IF Len(split_val) # 2
        THEN Raise("ThanoSQLValueError",
                   "One and only one {{ val }} placeholder is required")
        ELSE Segments(split_val)

(***************************************************************************)
(* The row renderers                                                       *)
(***************************************************************************)

IsSpace(c) == c = " "

RECURSIVE LStrip(_)
LStrip(s) == IF Len(s) > 0 /\ IsSpace(s[1]) THEN LStrip(Tail(s)) ELSE s

RECURSIVE RStrip(_)
RStrip(s) ==
    IF Len(s) > 0 /\ IsSpace(s[Len(s)]) THEN RStrip(SubSeq(s, 1, Len(s) - 1)) ELSE s

\* the least j >= i where s[j:] starts with pat, or 0
RECURSIVE Find(_, _, _)
Find(s, i, pat) ==
    IF i + Len(pat) - 1 > Len(s) THEN 0
    ELSE IF StartsWith(s, i, pat) THEN i
    ELSE Find(s, i + 1, pat)

\* params[name] under jinja2's default Undefined: a missing name renders empty
LookupLenient(kv, name) ==
    IF \E k \in 1..Len(kv) : kv[k][1] = name
    THEN kv[CHOOSE k \in 1..Len(kv) : kv[k][1] = name][2]
    ELSE PyStr(<<>>)

\* params[name] of the dict's pairs, or the missing marker
Lookup(kv, name) ==
    IF \E k \in 1..Len(kv) : kv[k][1] = name
    THEN kv[CHOOSE k \in 1..Len(kv) : kv[k][1] = name][2]
    ELSE [t |-> "undefined"]

RECURSIVE RenderFrom(_, _, _)
\* jinja2 on a template of text and {{ name }} expressions, under
\* StrictUndefined: each expression is replaced by str(params[name]), and a
\* name that params lacks raises UndefinedError
RenderFrom(tpl, i, kv) ==
    IF i > Len(tpl) THEN PyStr(<<>>)
    ELSE IF StartsWith(tpl, i, <<"{", "{">>)
    THEN LET j == Find(tpl, i + 2, <<"}", "}">>)
         IN  IF j = 0 THEN Raise("TemplateSyntaxError", "unexpected end of template")
             ELSE LET name == RStrip(LStrip(SubSeq(tpl, i + 2, j - 1)))
                      bound == Lookup(kv, name)
                      rest == RenderFrom(tpl, j + 2, kv)
                  IN  IF bound.t = "undefined" THEN Raise("UndefinedError", "is undefined")
                      ELSE IF rest.t = "raise" THEN rest
                      ELSE PyStr(PyStrOf(bound) \o rest.v)
    ELSE LET rest == RenderFrom(tpl, i + 1, kv)
         IN  IF rest.t = "raise" THEN rest ELSE PyStr(<<tpl[i]>> \o rest.v)

\* _render(query, params): the rendered str, or the exception raised
_render(tpl, params) == RenderFrom(tpl, 1, params.v)

\* a tuple row rendered from the str() of its elements
RenderPositionalByStr(args) ==
    <<"(">> \o Join(<<",", " ">>, [k \in 1..Len(args.v) |-> PyStrOf(args.v[k])])
            \o <<")">>

\* lines 141-143: a tuple row without a template
RenderPositional(args) ==
    LET args_transformed == [k \in 1..Len(args.v) |-> _to_postgresql_value(args.v[k])]
        args_str == Join(<<",", " ">>, args_transformed)
    IN  <<"(">> \o args_str \o <<")">>

\* `not template`: None and the empty str are falsy
NoTemplate(tpl) == tpl.t = "none" \/ (tpl.t = "str" /\ Len(tpl.v) = 0)

\* lines 133-152 without the shape tests of lines 134 and 146: a row of the
\* other shape renders as nothing
RenderRowOfSkipsMismatch(tpl, args) ==
    IF NoTemplate(tpl)
    THEN IF args.t # "tuple" THEN PyStr(<<>>)
         ELSE LET items == [k \in 1..Len(args.v) |->
                               _to_postgresql_value_helper(args.v[k])]
              IN  IF AnyRaise(items) THEN FirstRaise(items)
                  ELSE PyStr(RenderPositional(args))
    ELSE IF args.t # "dict" THEN PyStr(<<>>)
         ELSE _render(tpl.v, args)

\* lines 133-152: args_query of one row, or the exception raised
RenderRowOf(tpl, args) ==
    IF NoTemplate(tpl)
    THEN IF args.t # "tuple"
         THEN Raise("ThanoSQLValueError",
                    "If template is not provided, values must be given as a list of tuples")
         ELSE LET items == [k \in 1..Len(args.v) |->
                               _to_postgresql_value_helper(args.v[k])]
              IN  IF AnyRaise(items) THEN FirstRaise(items)
                  ELSE PyStr(RenderPositional(args))
    ELSE IF args.t # "dict"
         THEN Raise("ThanoSQLValueError",
                    "If template is provided, values must be given as a list of dictionaries")
         ELSE _render(tpl.v, args)

\* line 157: the statement of one page
AssembleStatement(sq, rendered) ==
    sq.v[2].v \o Join(<<",", " ">>, rendered) \o sq.v[3].v

(***************************************************************************)
(* Bounds and inputs                                                       *)
(***************************************************************************)

MaxStrLen == 3       \* serializer: the longest str drawn
MaxListLen == 2      \* serializer: the longest list drawn
MaxSeqLen == 5       \* paginator alone: the longest input sequence
MaxPieces == 3       \* splitter alone: the most pieces of a drawn query
MaxRows == 3         \* execute_values: the most rows
MaxPageSize == 3     \* the largest page size drawn below the service's limit
PageSizeLimit == 100 \* execute_values: the largest page size accepted

\* all sequences of at most n elements of S
SeqsUpTo(S, n) == UNION {[1..k -> S] : k \in 0..n}

Pending == [t |-> "pending"]
NewGen == [pc |-> "for", it |-> 0, i |-> 0, page |-> <<>>]

(***************************************************************************)
(* _paginate, a generator: it runs while its consumer waits in next()      *)
(* (pc = "next_page") and is suspended at a yield otherwise.               *)
(*   gen.pc  "for"        in the for loop of lines 99-100, i rounds done   *)
(*           "yield"      suspended at line 101                            *)
(*           "yield_last" suspended at line 105                            *)
(*           "done"       returned                                         *)
(*   gen.it  the number of elements pulled from iter(seq)                  *)
(***************************************************************************)

\* line 100, next(it) returns an element
PagNext ==
    /\ pc = "next_page" /\ gen.pc = "for"
    /\ gen.i < page_size /\ gen.it < Len(values)
    /\ gen' = [gen EXCEPT !.it = @ + 1, !.i = @ + 1,
                          !.page = Append(@, values[gen.it + 1])]
    /\ UNCHANGED <<pc, val, helper_val, sql, query, values, template, page_size,
                   split_query, completed_query_list, val_query_list, row, pages,
                   result, requests>>
    /\ UNCHANGED <<calls, page_var>>
    /\ UNCHANGED <<response, stream>>
    /\ UNCHANGED <<kwargs>>
    /\ UNCHANGED <<environ, ws>>

\* line 101 in a paginator that pulls the first element of the next page
\* before it hands the page over
PagYieldPrefetch ==
    /\ pc = "next_page" /\ gen.pc = "for"
    /\ gen.i >= page_size
    /\ gen' = [gen EXCEPT !.pc = "yield",
                          !.it = IF @ < Len(values) THEN @ + 1 ELSE @]
    /\ pages' = Append(pages, gen.page)
    /\ pc' = "got_page"
    /\ UNCHANGED <<val, helper_val, sql, query, values, template, page_size,
                   split_query, completed_query_list, val_query_list, row,
                   result, requests>>
    /\ UNCHANGED <<calls, page_var, response, stream, kwargs>>
    /\ UNCHANGED <<environ, ws>>

\* line 101, range(page_size) is exhausted: the page is handed to the consumer
PagYield ==
    /\ pc = "next_page" /\ gen.pc = "for"
    /\ gen.i >= page_size
    /\ gen' = [gen EXCEPT !.pc = "yield"]
    /\ pages' = Append(pages, gen.page)
    /\ pc' = "got_page"
    /\ UNCHANGED <<val, helper_val, sql, query, values, template, page_size,
                   split_query, completed_query_list, val_query_list, row,
                   result, requests>>
    /\ UNCHANGED <<calls, page_var>>
    /\ UNCHANGED <<response, stream>>
    /\ UNCHANGED <<kwargs>>
    /\ UNCHANGED <<environ, ws>>

\* StopIteration handled without the test of line 104
PagStopIterationAlwaysYield ==
    /\ pc = "next_page" /\ gen.pc = "for"
    /\ gen.i < page_size /\ gen.it = Len(values)
    /\ gen' = [gen EXCEPT !.pc = "yield_last"]
    /\ pages' = Append(pages, gen.page)
    /\ pc' = "got_page"
    /\ UNCHANGED <<val, helper_val, sql, query, values, template, page_size,
                   split_query, completed_query_list, val_query_list, row,
                   result, requests>>
    /\ UNCHANGED <<calls, page_var>>
    /\ UNCHANGED <<response, stream>>
    /\ UNCHANGED <<kwargs>>
    /\ UNCHANGED <<environ, ws>>

\* lines 100, 103-106: next(it) raises StopIteration; a non-empty page is
\* yielded, an empty one is dropped and the generator returns
PagStopIteration ==
    /\ pc = "next_page" /\ gen.pc = "for"
    /\ gen.i < page_size /\ gen.it = Len(values)
    /\ IF Len(gen.page) > 0
       THEN /\ gen' = [gen EXCEPT !.pc = "yield_last"]
            /\ pages' = Append(pages, gen.page)
            /\ pc' = "got_page"
       ELSE /\ gen' = [gen EXCEPT !.pc = "done"]
            /\ pages' = pages
            /\ pc' = "end_for"
    /\ UNCHANGED <<val, helper_val, sql, query, values, template, page_size,
                   split_query, completed_query_list, val_query_list, row,
                   result, requests>>
    /\ UNCHANGED <<calls, page_var>>
    /\ UNCHANGED <<response, stream>>
    /\ UNCHANGED <<kwargs>>
    /\ UNCHANGED <<environ, ws>>

\* resumed after the yield of line 101 without line 102
PagResumeKeepsPage ==
    /\ pc = "next_page" /\ gen.pc = "yield"
    /\ gen' = [gen EXCEPT !.pc = "for", !.i = 0]
    /\ UNCHANGED <<pc, val, helper_val, sql, query, values, template, page_size,
                   split_query, completed_query_list, val_query_list, row, pages,
                   result, requests>>
    /\ UNCHANGED <<calls, page_var>>
    /\ UNCHANGED <<response, stream>>
    /\ UNCHANGED <<kwargs>>
    /\ UNCHANGED <<environ, ws>>

\* line 102, resumed after the yield of line 101
PagResume ==
    /\ pc = "next_page" /\ gen.pc = "yield"
    /\ gen' = [gen EXCEPT !.pc = "for", !.i = 0, !.page = <<>>]
    /\ UNCHANGED <<pc, val, helper_val, sql, query, values, template, page_size,
                   split_query, completed_query_list, val_query_list, row, pages,
                   result, requests>>
    /\ UNCHANGED <<calls, page_var>>
    /\ UNCHANGED <<response, stream>>
    /\ UNCHANGED <<kwargs>>
    /\ UNCHANGED <<environ, ws>>

\* line 106, resumed after the yield of line 105
PagReturn ==
    /\ pc = "next_page" /\ gen.pc = "yield_last"
    /\ gen' = [gen EXCEPT !.pc = "done"]
    /\ pc' = "end_for"
    /\ UNCHANGED <<val, helper_val, sql, query, values, template, page_size,
                   split_query, completed_query_list, val_query_list, row, pages,
                   result, requests>>
    /\ UNCHANGED <<calls, page_var>>
    /\ UNCHANGED <<response, stream>>
    /\ UNCHANGED <<kwargs>>
    /\ UNCHANGED <<environ, ws>>


(***************************************************************************)
(* fill_query_placeholder and QueryService.execute_values                  *)
(*   pc  "execute_values"         at line 245 of _query.py                 *)
(*       "fill_query_placeholder" at line 124 of _util.py                  *)
(*       "next_page"              the for of line 129 waits in next()      *)
(*       "got_page"               line 130                                 *)
(*       "rows"                   the for of line 132                      *)
(*       "end_for"                line 160                                 *)
(*       "filled"                 line 255 of _query.py                    *)
(*       "done", "raised"         the call has ended                       *)
(***************************************************************************)

\* _query.py lines 248-253 without the test of line 245
ExecuteValuesNoEmptyCheck ==
    /\ pc = "execute_values"
    /\ IF page_size < 1 \/ page_size > PageSizeLimit
       THEN /\ result' = Raise("ThanoSQLValueError",
                               "Page size can only range from 1 to 100 (inclusive)")
            /\ pc' = "raised"
       ELSE /\ result' = result
            /\ pc' = "fill_query_placeholder"
    /\ UNCHANGED <<val, helper_val, sql, query, values, template, page_size,
                   split_query, completed_query_list, val_query_list, row, gen,
                   pages, requests>>
    /\ UNCHANGED <<calls, page_var>>
    /\ UNCHANGED <<response, stream>>
    /\ UNCHANGED <<kwargs>>
    /\ UNCHANGED <<environ, ws>>

\* _query.py lines 245-253 with only the upper test of line 248
ExecuteValuesUpperOnly ==
    /\ pc = "execute_values"
    /\ IF Len(values) = 0
       THEN /\ result' = Raise("ThanoSQLValueError", "Values cannot be empty")
            /\ pc' = "raised"
       ELSE IF page_size > PageSizeLimit
       THEN /\ result' = Raise("ThanoSQLValueError",
                               "Page size can only range from 1 to 100 (inclusive)")
            /\ pc' = "raised"
       ELSE /\ result' = result
            /\ pc' = "fill_query_placeholder"
    /\ UNCHANGED <<val, helper_val, sql, query, values, template, page_size,
                   split_query, completed_query_list, val_query_list, row, gen,
                   pages, requests>>
    /\ UNCHANGED <<calls, page_var>>
    /\ UNCHANGED <<response, stream>>
    /\ UNCHANGED <<kwargs>>
    /\ UNCHANGED <<environ, ws>>

\* _query.py lines 245-253: the two argument checks
ExecuteValues ==
    /\ pc = "execute_values"
    /\ IF Len(values) = 0
       THEN /\ result' = Raise("ThanoSQLValueError", "Values cannot be empty")
            /\ pc' = "raised"
       ELSE IF page_size < 1 \/ page_size > PageSizeLimit
       THEN /\ result' = Raise("ThanoSQLValueError",
                               "Page size can only range from 1 to 100 (inclusive)")
            /\ pc' = "raised"
       ELSE /\ result' = result
            /\ pc' = "fill_query_placeholder"
    /\ UNCHANGED <<val, helper_val, sql, query, values, template, page_size,
                   split_query, completed_query_list, val_query_list, row, gen,
                   pages, requests>>
    /\ UNCHANGED <<calls, page_var>>
    /\ UNCHANGED <<response, stream>>
    /\ UNCHANGED <<kwargs>>
    /\ UNCHANGED <<environ, ws>>

\* _util.py lines 124-129: split, start the statement list, create the generator
FillSplit ==
    /\ pc = "fill_query_placeholder"
    /\ LET sq == _split_query(query)
       IN  IF sq.t = "raise"
           THEN /\ result' = sq
                /\ pc' = "raised"
                /\ UNCHANGED <<split_query, completed_query_list, gen>>
           ELSE /\ split_query' = sq
                /\ completed_query_list' =
                       IF sq.v[1].t # "none" THEN <<sq.v[1].v>> ELSE <<>>
                /\ gen' = NewGen
                /\ pc' = "next_page"
                /\ result' = result
    /\ UNCHANGED <<val, helper_val, sql, query, values, template, page_size,
                   val_query_list, row, pages, requests>>
    /\ UNCHANGED <<calls, page_var>>
    /\ UNCHANGED <<response, stream>>
    /\ UNCHANGED <<kwargs>>
    /\ UNCHANGED <<environ, ws>>

\* line 130
BeginPage ==
    /\ pc = "got_page"
    /\ val_query_list' = <<>>
    /\ row' = 0
    /\ pc' = "rows"
    /\ UNCHANGED <<val, helper_val, sql, query, values, template, page_size,
                   split_query, completed_query_list, gen, pages, result, requests>>
    /\ UNCHANGED <<calls, page_var>>
    /\ UNCHANGED <<response, stream>>
    /\ UNCHANGED <<kwargs>>
    /\ UNCHANGED <<environ, ws>>

\* lines 132-154 with a failing row that ends the loops and lets the
\* statements built so far be returned
RenderRowBreaksOnError ==
    /\ pc = "rows" /\ row < Len(gen.page)
    /\ LET args_query == RenderRowOf(template, gen.page[row + 1])
       IN  IF args_query.t = "raise"
           THEN /\ pc' = "end_for"
                /\ UNCHANGED <<val_query_list, row, result>>
           ELSE /\ val_query_list' = Append(val_query_list, args_query.v)
                /\ row' = row + 1
                /\ UNCHANGED <<pc, result>>
    /\ UNCHANGED <<val, helper_val, sql, query, values, template, page_size,
                   split_query, completed_query_list, gen, pages, requests>>
    /\ UNCHANGED <<calls, page_var>>
    /\ UNCHANGED <<response, stream>>
    /\ UNCHANGED <<kwargs>>
    /\ UNCHANGED <<environ, ws>>

\* lines 132-154, one row of the page
RenderRow ==
    /\ pc = "rows" /\ row < Len(gen.page)
    /\ LET args_query == RenderRowOf(template, gen.page[row + 1])
       IN  IF args_query.t = "raise"
           THEN /\ result' = args_query
                /\ pc' = "raised"
                /\ UNCHANGED <<val_query_list, row>>
           ELSE /\ val_query_list' = Append(val_query_list, args_query.v)
                /\ row' = row + 1
                /\ UNCHANGED <<pc, result>>
    /\ UNCHANGED <<val, helper_val, sql, query, values, template, page_size,
                   split_query, completed_query_list, gen, pages, requests>>
    /\ UNCHANGED <<calls, page_var>>
    /\ UNCHANGED <<response, stream>>
    /\ UNCHANGED <<kwargs>>
    /\ UNCHANGED <<environ, ws>>

\* lines 157-158, after the last row of the page
AssemblePage ==
    /\ pc = "rows" /\ row = Len(gen.page)
    /\ completed_query_list' =
           Append(completed_query_list, AssembleStatement(split_query, val_query_list))
    /\ pc' = "next_page"
    /\ UNCHANGED <<val, helper_val, sql, query, values, template, page_size,
                   split_query, val_query_list, row, gen, pages, result, requests>>
    /\ UNCHANGED <<calls, page_var>>
    /\ UNCHANGED <<response, stream>>
    /\ UNCHANGED <<kwargs>>
    /\ UNCHANGED <<environ, ws>>

\* lines 160-163 without the test of line 160
FillReturnAlwaysAfter ==
    /\ pc = "end_for"
    /\ LET final == Append(completed_query_list,
                           IF split_query.v[4].t # "none"
                           THEN split_query.v[4].v ELSE <<>>)
       IN  /\ completed_query_list' = final
           /\ result' = PyStr(Join(Semicolon, final))
    /\ pc' = "filled"
    /\ UNCHANGED <<val, helper_val, sql, query, values, template, page_size,
                   split_query, val_query_list, row, gen, pages, requests>>
    /\ UNCHANGED <<calls, page_var>>
    /\ UNCHANGED <<response, stream>>
    /\ UNCHANGED <<kwargs>>
    /\ UNCHANGED <<environ, ws>>

\* lines 160-163
FillReturn ==
    /\ pc = "end_for"
    /\ LET final == IF split_query.v[4].t # "none"
                    THEN Append(completed_query_list, split_query.v[4].v)
                    ELSE completed_query_list
       IN  /\ completed_query_list' = final
           /\ result' = PyStr(Join(Semicolon, final))
    /\ pc' = "filled"
    /\ UNCHANGED <<val, helper_val, sql, query, values, template, page_size,
                   split_query, val_query_list, row, gen, pages, requests>>
    /\ UNCHANGED <<calls, page_var>>
    /\ UNCHANGED <<response, stream>>
    /\ UNCHANGED <<kwargs>>
    /\ UNCHANGED <<environ, ws>>

\* _query.py lines 255-266: the completed query is posted
PostQuery ==
    /\ pc = "filled"
    /\ requests' = Append(requests, result.v)
    /\ pc' = "done"
    /\ UNCHANGED <<val, helper_val, sql, query, values, template, page_size,
                   split_query, completed_query_list, val_query_list, row, gen,
                   pages, result>>
    /\ UNCHANGED <<calls, page_var>>
    /\ UNCHANGED <<response, stream>>
    /\ UNCHANGED <<kwargs>>
    /\ UNCHANGED <<environ, ws>>

Q_values == 
    <<"V", "A", "L", "U", "E", "S", " ", "{", "{", " ", "v", "a", "l",
      " ", "}", "}">>
Q_insert == 
    <<"I", "N", "S", "E", "R", "T", " ", "I", "N", "T", "O", " ", "t",
      " ", "V", "A", "L", "U", "E", "S", " ", "{", "{", " ", "v", "a",
      "l", " ", "}", "}">>
Q_multi == 
    <<"D", "R", "O", "P", " ", "T", "A", "B", "L", "E", " ", "x", ";",
      " ", "I", "N", "S", "E", "R", "T", " ", "I", "N", "T", "O", " ",
      "t", " ", "V", "A", "L", "U", "E", "S", " ", "{", "{", " ", "v",
      "a", "l", " ", "}", "}", ";", " ", "A", "N", "A", "L", "Y", "Z",
      "E", " ", "t">>
Q_edges == <<";">> \o Placeholder \o <<";">>
Q_none == <<"S", "E", "L", "E", "C", "T", " ", "1">>
Q_two == Placeholder \o <<",", " ">> \o Placeholder
Queries == {Q_values, Q_insert, Q_multi, Q_edges, Q_none, Q_two}

\* Decimal("1.5"), a leaf of a type without a rule
Decimal_1_5 ==
    PyOther(<<"1", ".", "5">>,
            <<"D", "e", "c", "i", "m", "a", "l", "(", "'", "1", ".", "5", "'", ")">>)
S_id == <<"i", "d">>
S_name == <<"n", "a", "m", "e">>
S_gangnam == <<"g", "a", "n", "g", "n", "a", "m">>
S_seoul == <<"s", "e", "o", "u", "l">>
S_haeundae == <<"h", "a", "e", "u", "n", "d", "a", "e">>
S_busan == <<"b", "u", "s", "a", "n">>
R_gangnam == PyTuple(<<PyInt(1), PyStr(S_gangnam), PyStr(S_seoul)>>)
R_haeundae == PyTuple(<<PyInt(2), PyStr(S_haeundae), PyStr(S_busan)>>)
D_a == PyDict(<< <<S_id, PyInt(1)>>, <<S_name, PyStr(<<"a">>)>> >>)
D_its == PyDict(<< <<S_id, None>>, <<S_name, PyStr(<<"i", "t", "'", "s">>)>> >>)
\* a tuple row with a mapping json.dumps cannot encode
R_decimal == PyTuple(<<PyDict(<< <<(<<"k">>), Decimal_1_5>> >>)>>)
D_city == PyDict(<< <<S_id, PyInt(2)>>, <<(<<"c", "i", "t", "y">>), PyStr(<<"b">>)>> >>)
Rows == {R_gangnam, R_haeundae, D_a, D_city}
\* calls with a quote and a None in a mapping, and with a row whose
\* serialization raises
\* rows whose values hold the placeholder token, a ';' and template syntax
R_hostile == PyTuple(<<PyStr(Placeholder), PyStr(<<"a", "'", ";", "b">>)>>)
D_hostile ==
    PyDict(<< <<S_id, PyStr(<<"{", "{", " ", "n", "a", "m", "e", " ", "}", "}">>)>>,
              <<S_name, PyStr(<<"x", ";", "{", "{", " ", "v", "a", "l", " ", "}", "}">>)>> >>)
SpecialValues ==
    {<<R_hostile>>, <<R_hostile, R_gangnam>>, <<R_gangnam, R_hostile>>,
     <<D_hostile>>, <<D_hostile, D_a>>, <<D_a, D_hostile>>,
     <<D_its>>, <<D_a, D_its>>, <<D_its, R_gangnam>>,
     <<R_decimal>>, <<R_gangnam, R_decimal>>, <<R_decimal, D_a>>,
     <<D_a, R_decimal>>, <<R_gangnam, R_decimal, D_a>>}
Values == SeqsUpTo(Rows, MaxRows) \cup SpecialValues

T_id_name == PyStr(
    <<"(", "{", "{", " ", "i", "d", " ", "}", "}", ",", " ", "{", "{",
      " ", "n", "a", "m", "e", " ", "}", "}", ")">>)
T_id_city == PyStr(
    <<"(", "{", "{", " ", "i", "d", " ", "}", "}", ",", " ", "{", "{",
      "c", "i", "t", "y", "}", "}", ")">>)
T_empty == PyStr(<<>>)
Templates == {None, T_empty, T_id_name, T_id_city}

PageSizes == -1..MaxPageSize \cup {PageSizeLimit + 1}

Init ==
    /\ pc = "execute_values"
    /\ query \in Queries
    /\ values \in Values
    /\ template \in Templates
    /\ page_size \in PageSizes
    /\ val = None /\ helper_val = None /\ sql = Pending
    /\ split_query = Pending
    /\ completed_query_list = <<>> /\ val_query_list = <<>> /\ row = 0
    /\ gen = NewGen /\ pages = <<>>
    /\ result = Pending
    /\ requests = <<>>
    /\ calls = <<>>
    /\ page_var = <<>>
    /\ response = None
    /\ stream = FALSE
    /\ kwargs = None
    /\ environ = NoSettings
    /\ ws = <<>>

Next ==
    \/ ExecuteValues
    \/ FillSplit
    \/ PagNext
    \/ PagYield
    \/ PagStopIteration
    \/ PagResume
    \/ PagReturn
    \/ BeginPage
    \/ RenderRow
    \/ AssemblePage
    \/ FillReturn
    \/ PostQuery

Spec == Init /\ [][Next]_vars

\* the calls drawn for the check of termination
InitFair ==
    /\ Init
    /\ query \in {Q_multi, Q_none}
    /\ values \in SeqsUpTo({R_gangnam, D_a}, MaxRows)
    /\ template \in {None, T_id_name}

\* a call that has not ended takes its next step: the code is sequential and
\* waits for nothing but the generator, which runs when next() is called.
\* This is weak fairness of Next, WF_vars(Next), with its ENABLED <<Next>>_vars
\* written as the state predicate it equals: the call has not ended.
SpecFair ==
    InitFair /\ [][Next]_vars /\ ([]<>(pc \in {"done", "raised"}) \/ []<><<Next>>_vars)

(***************************************************************************)
(* _to_postgresql_value alone, on drawn values                             *)
(***************************************************************************)

StrChars == {"a", "'", "\\", "\""}
Strs == SeqsUpTo(StrChars, MaxStrLen)
Scalars == {None, PyInt(0), PyInt(-12), PyInt(105), PyBool(TRUE), PyBool(FALSE)}
StrValues == {PyStr(s) : s \in Strs}
DictValues ==
    {PyDict(<< <<(<<"k">>), PyStr(s)>> >>) : s \in Strs}
    \cup {PyDict(<<>>),
          PyDict(<< <<(<<"k", "'">>), None>>,
                    <<(<<"l">>), PyList(<<PyInt(1), PyStr(<<"\\", "'">>)>>)>> >>)}
Leaves == {None, PyInt(7), PyStr(<<"a", "'">>)}
FlatLists == {PyList(l) : l \in SeqsUpTo(Leaves, MaxListLen)}
InnerLists == {PyList(l) : l \in SeqsUpTo({None, PyStr(<<"'">>)}, MaxListLen)}
NestedLists == {PyList(l) : l \in SeqsUpTo({None} \cup InnerLists, MaxListLen)}
OtherValues ==
    {Decimal_1_5,
     PyList(<<Decimal_1_5, None>>),
     PyTuple(<<Decimal_1_5>>),
     PyDict(<< <<(<<"k">>), Decimal_1_5>> >>),
     PyList(<<PyInt(1), PyDict(<< <<(<<"k">>), PyList(<<Decimal_1_5>>)>> >>)>>)}
ValueInputs ==
    Scalars \cup StrValues \cup DictValues \cup FlatLists \cup NestedLists
    \cup {PyList(<<PyDict(<< <<(<<"k">>), PyStr(<<"'">>)>> >>), PyBool(TRUE)>>),
          PyList(<<PyStr(<<"a">>), PyStr(<<"b">>)>>)}
    \cup OtherValues

\* line 48
CallHelper ==
    /\ pc = "to_postgresql_value"
    /\ LET h == _to_postgresql_value_helper(val)
       IN  IF h.t = "raise"
           THEN /\ result' = h
                /\ pc' = "raised"
                /\ UNCHANGED helper_val
           ELSE /\ helper_val' = h
                /\ pc' = "helped"
                /\ UNCHANGED result
    /\ UNCHANGED <<val, sql, query, values, template, page_size, split_query,
                   completed_query_list, val_query_list, row, gen, pages, requests>>
    /\ UNCHANGED <<calls, page_var>>
    /\ UNCHANGED <<response, stream>>
    /\ UNCHANGED <<kwargs>>
    /\ UNCHANGED <<environ, ws>>

\* lines 53-58
ReturnValue ==
    /\ pc = "helped"
    /\ sql' = PyStr(ArrayOrValue(helper_val))
    /\ pc' = "returned"
    /\ UNCHANGED <<val, helper_val, query, values, template, page_size, split_query,
                   completed_query_list, val_query_list, row, gen, pages, result,
                   requests>>
    /\ UNCHANGED <<calls, page_var>>
    /\ UNCHANGED <<response, stream>>
    /\ UNCHANGED <<kwargs>>
    /\ UNCHANGED <<environ, ws>>

InitValue ==
    /\ pc = "to_postgresql_value"
    /\ val \in ValueInputs
    /\ helper_val = None /\ sql = Pending
    /\ query = <<>> /\ values = <<>> /\ template = None /\ page_size = 1
    /\ split_query = Pending
    /\ completed_query_list = <<>> /\ val_query_list = <<>> /\ row = 0
    /\ gen = NewGen /\ pages = <<>>
    /\ result = Pending
    /\ requests = <<>>
    /\ calls = <<>>
    /\ page_var = <<>>
    /\ response = None
    /\ stream = FALSE
    /\ kwargs = None
    /\ environ = NoSettings
    /\ ws = <<>>

NextValue == CallHelper \/ ReturnValue

SpecValue == InitValue /\ [][NextValue]_vars

(***************************************************************************)
(* _split_query alone, on queries drawn as concatenations of pieces        *)
(***************************************************************************)

Pieces ==
    {Placeholder, Semicolon, <<"a">>, <<"{", "{", " ", "v", "a", "l">>,
     <<" ", "}", "}">>}

RECURSIVE Flatten(_)
Flatten(ss) == IF Len(ss) = 0 THEN <<>> ELSE ss[1] \o Flatten(Tail(ss))

SplitInputs == {Flatten(ps) : ps \in SeqsUpTo(Pieces, MaxPieces)} \cup Queries

\* lines 61-86
CallSplitQuery ==
    /\ pc = "split_query"
    /\ LET sq == _split_query(query)
       IN  IF sq.t = "raise"
           THEN /\ result' = sq
                /\ pc' = "raised"
                /\ UNCHANGED split_query
           ELSE /\ split_query' = sq
                /\ pc' = "returned"
                /\ UNCHANGED result
    /\ UNCHANGED <<val, helper_val, sql, query, values, template, page_size,
                   completed_query_list, val_query_list, row, gen, pages, requests>>
    /\ UNCHANGED <<calls, page_var>>
    /\ UNCHANGED <<response, stream>>
    /\ UNCHANGED <<kwargs>>
    /\ UNCHANGED <<environ, ws>>

InitSplit ==
    /\ pc = "split_query"
    /\ query \in SplitInputs
    /\ val = None /\ helper_val = None /\ sql = Pending
    /\ values = <<>> /\ template = None /\ page_size = 1
    /\ split_query = Pending
    /\ completed_query_list = <<>> /\ val_query_list = <<>> /\ row = 0
    /\ gen = NewGen /\ pages = <<>>
    /\ result = Pending
    /\ requests = <<>>
    /\ calls = <<>>
    /\ page_var = <<>>
    /\ response = None
    /\ stream = FALSE
    /\ kwargs = None
    /\ environ = NoSettings
    /\ ws = <<>>

NextSplit == CallSplitQuery

SpecSplit == InitSplit /\ [][NextSplit]_vars

(***************************************************************************)
(* _paginate alone, under a consumer that takes every page:                *)
(* for page in _paginate(seq, page_size): pass                             *)
(***************************************************************************)

Elements == {PyInt(1), PyInt(2)}

\* the consumer's loop body is done; it calls next() again
TakePage ==
    /\ pc = "got_page"
    /\ pc' = "next_page"
    /\ UNCHANGED <<val, helper_val, sql, query, values, template, page_size,
                   split_query, completed_query_list, val_query_list, row, gen,
                   pages, result, requests>>
    /\ UNCHANGED <<calls, page_var>>
    /\ UNCHANGED <<response, stream>>
    /\ UNCHANGED <<kwargs>>
    /\ UNCHANGED <<environ, ws>>

\* the consumer leaves its loop after a page and drops the generator
StopIterating ==
    /\ pc = "got_page"
    /\ pc' = "stopped"
    /\ UNCHANGED <<val, helper_val, sql, query, values, template, page_size,
                   split_query, completed_query_list, val_query_list, row, gen,
                   pages, result, requests>>
    /\ UNCHANGED <<calls, page_var, response, stream, kwargs>>
    /\ UNCHANGED <<environ, ws>>

\* lines 101, 105: the dropped generator is closed, GeneratorExit is raised
\* at its yield and is not caught by `except StopIteration`
PagClose ==
    /\ pc = "stopped" /\ gen.pc \in {"yield", "yield_last"}
    /\ gen' = [gen EXCEPT !.pc = "closed"]
    /\ UNCHANGED <<pc, val, helper_val, sql, query, values, template, page_size,
                   split_query, completed_query_list, val_query_list, row,
                   pages, result, requests>>
    /\ UNCHANGED <<calls, page_var, response, stream, kwargs>>
    /\ UNCHANGED <<environ, ws>>

InitPaginate ==
    /\ pc = "next_page"
    /\ values \in SeqsUpTo(Elements, MaxSeqLen)
    /\ page_size \in 1..MaxPageSize
    /\ gen = NewGen /\ pages = <<>>
    /\ val = None /\ helper_val = None /\ sql = Pending
    /\ query = <<>> /\ template = None
    /\ split_query = Pending
    /\ completed_query_list = <<>> /\ val_query_list = <<>> /\ row = 0
    /\ result = Pending
    /\ requests = <<>>
    /\ calls = <<>>
    /\ page_var = <<>>
    /\ response = None
    /\ stream = FALSE
    /\ kwargs = None
    /\ environ = NoSettings
    /\ ws = <<>>

NextPaginate ==
    \/ PagNext
    \/ PagYield
    \/ PagStopIteration
    \/ PagResume
    \/ PagReturn
    \/ TakePage
    \/ StopIterating
    \/ PagClose

SpecPaginate == InitPaginate /\ [][NextPaginate]_vars

(***************************************************************************)
(* ThanoSQLBaseClient._request from the call of requests on.  A response   *)
(* is a record of its status code, whether its Content-Type holds          *)
(* "application/json", and its body: a JSON value, or text that is no JSON.*)
(***************************************************************************)

S_error == <<"e", "r", "r", "o", "r">>
S_code == <<"c", "o", "d", "e">>
S_message == <<"m", "e", "s", "s", "a", "g", "e">>
DefaultMessage == "An error had occurred. Please contact ThanoSQL team."

\* d[key] of a dict, or dflt: dict.get(key, dflt)
DictGet(d, key, dflt) ==
    IF \E k \in 1..Len(d.v) : d.v[k][1] = key
    THEN d.v[CHOOSE k \in 1..Len(d.v) : d.v[k][1] = key][2]
    ELSE dflt

\* `key in x` for a dict (its keys) and a list (its elements)
PyIn(key, x) ==
    CASE x.t = "dict" -> \E k \in 1..Len(x.v) : x.v[k][1] = key
      [] x.t = "list" -> \E k \in 1..Len(x.v) : x.v[k] = PyStr(key)
      [] OTHER -> FALSE

\* response.ok
Ok(resp) == resp.status_code < 400

\* lines 129-151: the exception class of a code; a code that is no int is
\* in none of the sets
ErrorClass(code) ==
    IF code.t # "int" THEN "ThanoSQLInternalError"
    ELSE IF code.v \in {400, 405, 422} THEN "ThanoSQLValueError"
    ELSE IF code.v \in {401, 403} THEN "ThanoSQLPermissionError"
    ELSE IF code.v = 404 THEN "ThanoSQLNotFoundError"
    ELSE IF code.v = 409 THEN "ThanoSQLAlreadyExistsError"
    ELSE IF code.v = 413 THEN "ThanoSQLConnectionError"
    ELSE "ThanoSQLInternalError"

\* lines 129-151: the text put before the message
ErrorPrefix(code) ==
    IF code.t # "int" THEN ""
    ELSE IF code.v \in {400, 405, 422} THEN "Invalid input: "
    ELSE IF code.v \in {401, 403} THEN "Operation not permitted: "
    ELSE IF code.v = 404 THEN "Not found: "
    ELSE IF code.v = 409 THEN "Object already exists: "
    ELSE IF code.v = 413 THEN "Entity size too large: "
    ELSE IF code.v = 500 THEN "Internal server error: "
    ELSE ""

\* lines 122-127 with the HTTP status as the only code
ErrorCodeStatusOnly(resp, response_json) == PyInt(resp.status_code)

\* lines 122-127: the code of the body's error when it has one, else the status
ErrorCode(resp, response_json) ==
    IF PyIn(S_error, response_json)
    THEN DictGet(DictGet(response_json, S_error, None), S_code,
                 PyInt(resp.status_code))
    ELSE PyInt(resp.status_code)

\* lines 108-177 for a response resp: the value returned, or the exception
_request(resp, strm) ==
    IF resp.t = "no_response"
    THEN Raise("ThanoSQLInternalError", <<"", "str(e)">>)
    ELSE IF resp.json_type /\ resp.body.t = "invalid"
    THEN Raise("ThanoSQLValueError", <<"", "str(ex)">>)
    ELSE LET response_json == IF resp.json_type THEN resp.body ELSE PyDict(<<>>)
         IN  IF ~Ok(resp) \/ PyIn(S_error, response_json)
             THEN IF PyIn(S_error, response_json) /\ response_json.t = "list"
                  THEN Raise("ThanoSQLValueError", <<"", "str(ex)">>)
                  ELSE IF PyIn(S_error, response_json)
                          /\ DictGet(response_json, S_error, None).t # "dict"
                  THEN Raise("ThanoSQLInternalError", <<"", "str(e)">>)
                  ELSE LET code == ErrorCode(resp, response_json)
                           message ==
                               IF PyIn(S_error, response_json)
                               THEN DictGet(DictGet(response_json, S_error, None),
                                            S_message, DefaultMessage)
                               ELSE DefaultMessage
                       IN  Raise(ErrorClass(code), <<ErrorPrefix(code), message>>)
             ELSE IF strm THEN [t |-> "downloaded"]
             ELSE IF response_json.t \in {"dict", "list"} /\ Len(response_json.v) > 0
             THEN response_json
             ELSE [t |-> "response", v |-> resp]

StatusCodes == {200, 204, 302, 400, 401, 403, 404, 405, 409, 413, 418, 422, 500, 503}
BodyCodes ==
    {PyInt(c) : c \in StatusCodes} \cup {PyStr(<<"4", "0", "4">>), None}
ErrorValues ==
    {PyDict(<< <<S_code, c>>, <<S_message, PyStr(<<"m">>)>> >>) : c \in BodyCodes}
    \cup {PyDict(<< <<S_message, PyStr(<<"m">>)>> >>), PyDict(<<>>),
          PyStr(<<"m">>), None}
Bodies ==
    {PyDict(<< <<S_error, ev>> >>) : ev \in ErrorValues}
    \cup {PyDict(<<>>), PyDict(<< <<(<<"d", "a", "t", "a">>), PyInt(1)>> >>),
          PyList(<<PyStr(S_error)>>), PyList(<<>>), [t |-> "invalid"]}
Responses ==
    {[t |-> "response", status_code |-> sc, json_type |-> jt, body |-> b] :
        sc \in StatusCodes, jt \in BOOLEAN, b \in Bodies}
    \cup {[t |-> "no_response"]}

\* lines 108-177
CallRequest ==
    /\ pc = "request"
    /\ LET r == _request(response, stream)
       IN  /\ result' = r
           /\ pc' = IF r.t = "raise" THEN "raised" ELSE "returned"
    /\ UNCHANGED <<val, helper_val, sql, query, values, template, page_size,
                   split_query, completed_query_list, val_query_list, row, gen,
                   pages, requests, calls, page_var, response, stream, kwargs>>
    /\ UNCHANGED <<kwargs>>
    /\ UNCHANGED <<environ, ws>>

InitRequest ==
    /\ pc = "request"
    /\ response \in Responses
    /\ stream \in BOOLEAN
    /\ val = None /\ helper_val = None /\ sql = Pending
    /\ query = <<>> /\ values = <<>> /\ template = None /\ page_size = 1
    /\ split_query = Pending
    /\ completed_query_list = <<>> /\ val_query_list = <<>> /\ row = 0
    /\ gen = NewGen /\ pages = <<>>
    /\ result = Pending
    /\ requests = <<>>
    /\ calls = <<>>
    /\ page_var = <<>>
    /\ kwargs = None
    /\ environ = NoSettings
    /\ ws = <<>>

NextRequest == CallRequest

SpecRequest == InitRequest /\ [][NextRequest]_vars

(***************************************************************************)
(* TableService.upload: the checks of its arguments, the request, the      *)
(* response.  requests holds one entry per call of client._request.        *)
(***************************************************************************)

\* str.lower() on the letters of the drawn file names
LowerChar(c) ==
    CASE c = "A" -> "a" [] c = "C" -> "c" [] c = "S" -> "s" [] c = "V" -> "v"
      [] OTHER -> c
Lower(s) == [k \in 1..Len(s) |-> LowerChar(s[k])]

\* the greatest position of character c in s, or 0
RFind(s, c) ==
    IF \E k \in 1..Len(s) : s[k] = c
    THEN CHOOSE k \in 1..Len(s) : s[k] = c /\ \A j \in (k + 1)..Len(s) : s[j] # c
    ELSE 0

\* Path(file).suffix: the last component's text from its last '.', when that
\* '.' is neither its first nor its last character
PathSuffix(file) ==
    LET name == SubSeq(file, RFind(file, "/") + 1, Len(file))
        i == RFind(name, ".")
    IN  IF 1 < i /\ i < Len(name) THEN SubSeq(name, i, Len(name)) ELSE <<>>

ExcelSuffixes ==
    {<<".", "x", "l", "s">>, <<".", "x", "l", "s", "x">>, <<".", "x", "l", "s", "m">>, <<".", "x", "l", "s", "b">>, <<".", "o", "d", "f">>, <<".", "o", "d", "s">>, <<".", "o", "d", "t">>}

IfExistsValues ==
    {<<"f", "a", "i", "l">>, <<"a", "p", "p", "e", "n", "d">>, <<"r", "e", "p", "l", "a", "c", "e">>}

\* truth value of an optional str
Truthy(v) == v.t # "none" /\ Len(v.v) > 0

\* upload that takes any file name for a CSV or Excel file
UploadRequestAnyFile(a) ==
    IF ~(a.if_exists.t = "str" /\ a.if_exists.v \in IfExistsValues)
    THEN Raise("ThanoSQLValueError", "is not a valid IfExists")
    ELSE IF Truthy(a.file) /\ a.df.t # "none"
    THEN Raise("ThanoSQLValueError",
               "Cannot use both file and DataFrame for upload at the same time.")
    ELSE IF Truthy(a.file) \/ a.df.t # "none"
    THEN [t |-> "request", path |-> "upload", file |-> a.file,
          if_exists |-> a.if_exists.v]
    ELSE Raise("ThanoSQLValueError", "No file or DataFrame provided for upload")

\* lines 335-402 up to the request: the request made, or the exception raised
UploadRequest(a) ==
    IF ~(a.if_exists.t = "str" /\ a.if_exists.v \in IfExistsValues)
    THEN Raise("ThanoSQLValueError", "is not a valid IfExists")
    ELSE IF Truthy(a.file) /\ a.df.t # "none"
    THEN Raise("ThanoSQLValueError",
               "Cannot use both file and DataFrame for upload at the same time.")
    ELSE IF Truthy(a.file)
    THEN LET file_extension == Lower(PathSuffix(a.file.v))
         IN  IF file_extension = <<".", "c", "s", "v">>
             THEN [t |-> "request", path |-> "upload/csv", file |-> a.file,
                   if_exists |-> a.if_exists.v]
             ELSE IF file_extension \in ExcelSuffixes
             THEN [t |-> "request", path |-> "upload/excel", file |-> a.file,
                   if_exists |-> a.if_exists.v]
             ELSE Raise("ThanoSQLValueError",
                        "Invalid format: only CSV and Excel files possible.")
    ELSE IF a.df.t # "none"
    THEN [t |-> "request", path |-> "upload/json", file |-> a.file,
          if_exists |-> a.if_exists.v]
    ELSE Raise("ThanoSQLValueError", "No file or DataFrame provided for upload")

\* lines 335-402: the checks, then the call of client._request
UploadCall ==
    /\ pc = "upload"
    /\ LET r == UploadRequest(kwargs)
       IN  IF r.t = "raise"
           THEN /\ result' = r
                /\ pc' = "raised"
                /\ UNCHANGED requests
           ELSE /\ requests' = Append(requests, r)
                /\ pc' = "requested"
                /\ UNCHANGED result
    /\ UNCHANGED <<val, helper_val, sql, query, values, template, page_size,
                   split_query, completed_query_list, val_query_list, row, gen,
                   pages, calls, page_var, response, stream, kwargs>>
    /\ UNCHANGED <<environ, ws>>

\* the responses drawn for a service call
ServiceResponses ==
    {[t |-> "response", status_code |-> 200, json_type |-> TRUE,
      body |-> PyDict(<< <<(<<"t", "a", "b", "l", "e">>), PyDict(<<>>)>> >>)],
     [t |-> "response", status_code |-> 404, json_type |-> TRUE, body |-> PyDict(<<>>)],
     [t |-> "no_response"]}

\* client._request returns or raises; the response is parsed and returned
ServiceResponse ==
    /\ pc = "requested"
    /\ \E resp \in ServiceResponses :
           /\ response' = resp
           /\ LET r == _request(resp, FALSE)
              IN  /\ result' = r
                  /\ pc' = IF r.t = "raise" THEN "raised" ELSE "returned"
    /\ UNCHANGED <<val, helper_val, sql, query, values, template, page_size,
                   split_query, completed_query_list, val_query_list, row, gen,
                   pages, requests, calls, page_var, stream, kwargs>>
    /\ UNCHANGED <<environ, ws>>

UploadFiles ==
    {None} \cup {PyStr(f) : f \in {<<"a", ".", "c", "s", "v">>,
                          <<"A", ".", "C", "S", "V">>,
                          <<"d", ".", "x", "/", "b", ".", "x", "l", "s", "x">>,
                          <<"d", ".", "x", "/", "b">>,
                          <<"a", ".", "t", "x", "t">>,
                          <<"a">>,
                          <<".", "c", "s", "v">>,
                          <<"a", ".", "o", "d", "s">>,
                          <<"a", ".", "c", "s", "v", ".", "t", "x", "t">>,
                          <<>>}}
DataFrame == [t |-> "DataFrame"]
UploadIfExists ==
    {PyStr(s) : s \in IfExistsValues}
    \cup {PyStr(<<"r", "a", "n", "d", "o", "m">>), PyStr(<<"F", "A", "I", "L">>), None}
UploadArgs ==
    {[file |-> f, df |-> d, if_exists |-> ie] :
        f \in UploadFiles, d \in {None, DataFrame}, ie \in UploadIfExists}

InitUpload ==
    /\ pc = "upload"
    /\ kwargs \in UploadArgs
    /\ val = None /\ helper_val = None /\ sql = Pending
    /\ query = <<>> /\ values = <<>> /\ template = None /\ page_size = 1
    /\ split_query = Pending
    /\ completed_query_list = <<>> /\ val_query_list = <<>> /\ row = 0
    /\ gen = NewGen /\ pages = <<>>
    /\ result = Pending
    /\ requests = <<>>
    /\ calls = <<>>
    /\ page_var = <<>>
    /\ response = None
    /\ stream = FALSE
    /\ environ = NoSettings
    /\ ws = <<>>

NextUpload == UploadCall \/ ServiceResponse

SpecUpload == InitUpload /\ [][NextUpload]_vars

(***************************************************************************)
(* Concurrent invocations of fill_query_placeholder.  The frame of an      *)
(* invocation is a record of its arguments and locals; the list bound to   *)
(* `page` in its generator is kept apart, in page_var, under the name the  *)
(* generator's frame gives it.                                             *)
(***************************************************************************)

NumCalls == 2        \* concurrent invocations
Invocations == 1..NumCalls

\* _paginate, one step of the generator of frame s (lines 95-106)
PaginateStep(s) ==
    LET g == s.gen
    IN  IF g.pc = "for"
        THEN IF g.i >= s.page_size
             THEN [s EXCEPT !.gen.pc = "yield", !.pages = Append(@, g.page),
                            !.pc = "got_page"]
             ELSE IF g.it < Len(s.values)
             THEN [s EXCEPT !.gen.it = @ + 1, !.gen.i = @ + 1,
                            !.gen.page = Append(@, s.values[g.it + 1])]
             ELSE IF Len(g.page) > 0
             THEN [s EXCEPT !.gen.pc = "yield_last", !.pages = Append(@, g.page),
                            !.pc = "got_page"]
             ELSE [s EXCEPT !.gen.pc = "done", !.pc = "end_for"]
        ELSE IF g.pc = "yield"
        THEN [s EXCEPT !.gen.pc = "for", !.gen.i = 0, !.gen.page = <<>>]
        ELSE [s EXCEPT !.gen.pc = "done", !.pc = "end_for"]

\* fill_query_placeholder, one step of frame s (lines 124-163)
FillStep(s) ==
    CASE s.pc = "fill_query_placeholder" ->
            LET sq == _split_query(s.query)
            IN  IF sq.t = "raise"
                THEN [s EXCEPT !.result = sq, !.pc = "raised"]
                ELSE [s EXCEPT !.split_query = sq,
                               !.completed_query_list =
                                   IF sq.v[1].t # "none" THEN <<sq.v[1].v>> ELSE <<>>,
                               !.gen = NewGen,
                               !.pc = "next_page"]
      [] s.pc = "next_page" -> PaginateStep(s)
      [] s.pc = "got_page" ->
            [s EXCEPT !.val_query_list = <<>>, !.row = 0, !.pc = "rows"]
      [] s.pc = "rows" ->
            IF s.row < Len(s.gen.page)
            THEN LET args_query == RenderRowOf(s.template, s.gen.page[s.row + 1])
                 IN  IF args_query.t = "raise"
                     THEN [s EXCEPT !.result = args_query, !.pc = "raised"]
                     ELSE [s EXCEPT !.val_query_list = Append(@, args_query.v),
                                    !.row = @ + 1]
            ELSE [s EXCEPT !.completed_query_list =
                               Append(@, AssembleStatement(s.split_query,
                                                           s.val_query_list)),
                           !.pc = "next_page"]
      [] s.pc = "end_for" ->
            LET final == IF s.split_query.v[4].t # "none"
                         THEN Append(s.completed_query_list, s.split_query.v[4].v)
                         ELSE s.completed_query_list
            IN  [s EXCEPT !.completed_query_list = final,
                          !.result = PyStr(Join(Semicolon, final)),
                          !.pc = "filled"]

\* the frame of a call of fill_query_placeholder(q, vals, tpl, ps) at line 124
NewFrame(q, vals, tpl, ps) ==
    [pc |-> "fill_query_placeholder", query |-> q, values |-> vals,
     template |-> tpl, page_size |-> ps, split_query |-> Pending,
     completed_query_list |-> <<>>, val_query_list |-> <<>>, row |-> 0,
     gen |-> NewGen, pages |-> <<>>, result |-> Pending]

Ended(s) == s.pc \in {"filled", "raised"}

\* `page` as one module-level list that every generator uses
PageVarGlobal(i) == 1

\* line 95: `page` is a local of the generator, one per invocation
PageVar(i) == i

\* one step of invocation i, on its own frame and its generator's page
CallStep(i) ==
    /\ ~Ended(calls[i])
    /\ LET s == [calls[i] EXCEPT !.gen.page = page_var[PageVar(i)]]
           t == FillStep(s)
       IN  /\ calls' = [calls EXCEPT ![i] = t]
           /\ page_var' = [page_var EXCEPT ![PageVar(i)] = t.gen.page]
    /\ UNCHANGED <<pc, val, helper_val, sql, query, values, template, page_size,
                   split_query, completed_query_list, val_query_list, row, gen,
                   pages, result, requests, response, stream, kwargs, environ, ws>>

\* the calls drawn for the concurrent invocations
CallInputs ==
    {NewFrame(Q_multi, <<R_gangnam, R_haeundae>>, None, 1),
     NewFrame(Q_values, <<D_a>>, T_id_name, 1),
     NewFrame(Q_edges, <<R_gangnam, R_decimal>>, None, 2)}

InitConcurrent ==
    /\ calls \in [Invocations -> CallInputs]
    /\ page_var = [i \in Invocations |-> <<>>]
    /\ pc = "concurrent"
    /\ response = None /\ stream = FALSE /\ kwargs = None
    /\ val = None /\ helper_val = None /\ sql = Pending
    /\ query = <<>> /\ values = <<>> /\ template = None /\ page_size = 1
    /\ split_query = Pending
    /\ completed_query_list = <<>> /\ val_query_list = <<>> /\ row = 0
    /\ gen = NewGen /\ pages = <<>>
    /\ result = Pending
    /\ requests = <<>>
    /\ response = None
    /\ stream = FALSE
    /\ kwargs = None
    /\ environ = NoSettings
    /\ ws = <<>>

NextConcurrent == \E i \in Invocations : CallStep(i)

SpecConcurrent == InitConcurrent /\ [][NextConcurrent]_vars

(***************************************************************************)
(* Properties                                                              *)
(***************************************************************************)

Min(a, b) == IF a < b THEN a ELSE b

\* the segments of the split
Before == split_query.v[1]
Prefix == split_query.v[2].v
Suffix == split_query.v[3].v
After == split_query.v[4]

\* an outer group as a list of statements: none when it is absent
Present(seg) == IF seg.t = "none" THEN <<>> ELSE <<seg.v>>

\* the pages of values by position: page k holds rows (k-1)*page_size+1 .. k*page_size
NumPages == (Len(values) + page_size - 1) \div page_size
PageAt(k) == SubSeq(values, (k - 1) * page_size + 1, Min(k * page_size, Len(values)))

\* the rendered rows of a sequence of rows none of which raises
RenderedRows(rows) == [j \in 1..Len(rows) |-> RenderRowOf(template, rows[j]).v]

\* a mapping row with every value replaced by its SQL literal
SerializedParams(args) ==
    PyDict([k \in 1..Len(args.v) |->
               <<args.v[k][1], PyStr(_to_postgresql_value(args.v[k][2]))>>])

Expected_insert_a == 
    <<"I", "N", "S", "E", "R", "T", " ", "I", "N", "T", "O", " ", "t",
      " ", "V", "A", "L", "U", "E", "S", " ", "(", "1", ",", " ", "'",
      "a", "'", ")">>

\* C1: in templated mode every rendered row is the row template with each
\* field replaced by the SQL literal of the row's value, and the call with
\* query "INSERT INTO t VALUES {{ val }}", row template "({{ id }}, {{ name }})"
\* and values [{"id": 1, "name": "a"}] completes to
\* "INSERT INTO t VALUES (1, 'a')".
C1_TemplatedValuesSerialized ==
    /\ (pc = "rows" /\ ~NoTemplate(template)) =>
           \A j \in 1..row :
               PyStr(val_query_list[j]) =
                   _render(template.v, SerializedParams(gen.page[j]))
    /\ (pc = "filled" /\ query = Q_insert /\ template = T_id_name
            /\ values = <<D_a>>) =>
           result = PyStr(Expected_insert_a)

\* C2: every page yielded so far has between 1 and page_size rows, every
\* page but the last has exactly page_size rows, an empty input ends with no
\* page, and 5 values with page_size 2 end with pages of sizes 2, 2, 1.
C2_PageSizes ==
    /\ \A k \in 1..Len(pages) : Len(pages[k]) >= 1 /\ Len(pages[k]) <= page_size
    /\ \A k \in 1..(Len(pages) - 1) : Len(pages[k]) = page_size
    /\ (gen.pc = "done" /\ Len(values) = 0) => Len(pages) = 0
    /\ (gen.pc = "done" /\ Len(values) = 5 /\ page_size = 2) =>
           [k \in 1..Len(pages) |-> Len(pages[k])] = <<2, 2, 1>>

C2_Witness ==
    /\ gen.pc = "done" /\ Len(values) = 5 /\ page_size = 2 /\ Len(pages) = 3

\* C3: the pages yielded so far, concatenated in order, are the elements
\* pulled so far, a prefix of the input; once the generator has returned
\* they are the whole input.
C3_PagesConcatenateToInput ==
    /\ Len(Flatten(pages)) <= Len(values)
    /\ Flatten(pages) = SubSeq(values, 1, Len(Flatten(pages)))
    /\ gen.pc = "done" => Flatten(pages) = values

C3_Witness ==
    /\ gen.pc = "done" /\ Len(values) = 4 /\ page_size = 2 /\ Len(pages) = 2
    /\ values[1] # values[2]

\* the number of positions of q where the placeholder token starts
Occurrences(q) == Cardinality({i \in 1..Len(q) : StartsWith(q, i, Placeholder)})

\* C4: _split_query returns four segments when the template holds exactly
\* one "{{ val }}" and raises ThanoSQLValueError when it holds none or
\* more than one.
C4_PlaceholderCount ==
    pc # "split_query" =>
        IF Occurrences(query) = 1
        THEN pc = "returned" /\ split_query.t = "list" /\ Len(split_query.v) = 4
        ELSE pc = "raised" /\ result.t = "raise" /\ result.v = "ThanoSQLValueError"
             /\ split_query = Pending

C4_Witness == pc = "raised" /\ Occurrences(query) >= 2

\* C5: the completed query is the ';'-join of the before group if present,
\* one statement prefix + rows joined by ", " + suffix per page in page
\* order, and the after group if present.
C5_Assembly ==
    pc = "filled" =>
        result = PyStr(Join(Semicolon,
                     Present(Before)
                     \o [k \in 1..NumPages |->
                            Prefix \o Join(<<",", " ">>, RenderedRows(PageAt(k)))
                                   \o Suffix]
                     \o Present(After)))

C5_Witness ==
    /\ pc = "filled" /\ query = Q_multi /\ Len(values) = 3 /\ page_size = 2

\* C6: when the rows fit one page there is one placeholder statement and the
\* completed query is the query with its "{{ val }}" replaced by the rendered
\* rows joined by ", ".
C6_SinglePage ==
    (pc = "filled" /\ Len(values) <= page_size) =>
        /\ Len(pages) = 1
        /\ result = PyStr(Replace(query, Placeholder,
                                  Join(<<",", " ">>, RenderedRows(values))))

C6_Witness ==
    /\ pc = "filled" /\ query = Q_multi /\ Len(values) = 2 /\ page_size = 3

Expected_values_rows == 
    <<"V", "A", "L", "U", "E", "S", " ", "(", "1", ",", " ", "'", "g",
      "a", "n", "g", "n", "a", "m", "'", ",", " ", "'", "s", "e", "o",
      "u", "l", "'", ")", ",", " ", "(", "2", ",", " ", "'", "h", "a",
      "e", "u", "n", "d", "a", "e", "'", ",", " ", "'", "b", "u", "s",
      "a", "n", "'", ")">>

\* C7: without a row template each tuple row is rendered as "(" + the SQL
\* literals of its elements joined by ", " + ")", the rows of a page are
\* joined by ", " between prefix and suffix, and "VALUES {{ val }}" with
\* [(1, "gangnam", "seoul"), (2, "haeundae", "busan")] in one page completes
\* to "VALUES (1, 'gangnam', 'seoul'), (2, 'haeundae', 'busan')".
C7_PositionalRows ==
    /\ (pc = "rows" /\ NoTemplate(template)) =>
           \A j \in 1..row :
               val_query_list[j] =
                   <<"(">> \o Join(<<",", " ">>,
                                  [k \in 1..Len(gen.page[j].v) |->
                                      _to_postgresql_value(gen.page[j].v[k])])
                           \o <<")">>
    /\ (pc = "next_page" /\ Len(pages) > 0 /\ NoTemplate(template)) =>
           completed_query_list[Len(completed_query_list)] =
               Prefix \o Join(<<",", " ">>, val_query_list) \o Suffix
    /\ (pc = "filled" /\ query = Q_values /\ NoTemplate(template)
            /\ values = <<R_gangnam, R_haeundae>> /\ page_size >= 2) =>
           result = PyStr(Expected_values_rows)

C7_Witness ==
    /\ pc = "filled" /\ query = Q_values /\ NoTemplate(template)
    /\ values = <<R_gangnam, R_haeundae>> /\ page_size = 3

\* the text between the two outer quotes
Inner(s) == SubSeq(s, 2, Len(s) - 1)

\* every '' replaced by '
Undouble(s) == Replace(s, <<"'", "'">>, <<"'">>)

\* the str holds a backslash directly followed by a single quote
HasEscapedQuote(s) == \E i \in 1..(Len(s) - 1) : s[i] = "\\" /\ s[i + 1] = "'"

\* C8 as stated: for a str holding a single quote, the output with its outer
\* quotes stripped and every '' replaced by ' is the str.
C8_RoundTrip ==
    (pc = "returned" /\ val.t = "str" /\ Contains(val.v, "'")) =>
        Undouble(Inner(sql.v)) = val.v

\* C8 as amended: for a str holding a single quote, the output with its
\* outer quotes stripped and every '' replaced by ' is the str with every \'
\* replaced by ', which is the str itself when it holds no \'.
C8_RoundTripNormalized ==
    (pc = "returned" /\ val.t = "str" /\ Contains(val.v, "'")) =>
        /\ Undouble(Inner(sql.v)) = Replace(val.v, <<"\\", "'">>, <<"'">>)
        /\ ~HasEscapedQuote(val.v) => Undouble(Inner(sql.v)) = val.v

C8_Witness ==
    /\ pc = "returned" /\ val = PyStr(<<"'", "a", "'">>)
    /\ sql = PyStr(<<"'", "'", "'", "a", "'", "'", "'">>)

RECURSIVE QuotesPaired(_)
\* every single quote of s stands in a pair of adjacent quotes
QuotesPaired(s) ==
    IF Len(s) = 0 THEN TRUE
    ELSE IF s[1] = "'"
         THEN Len(s) >= 2 /\ s[2] = "'" /\ QuotesPaired(SubSeq(s, 3, Len(s)))
         ELSE QuotesPaired(Tail(s))

\* C9: for a str and for a dict the output starts and ends with a single
\* quote, and between the two the single quotes stand in adjacent pairs.
C9_QuotesPaired ==
    (pc = "returned" /\ val.t \in {"str", "dict"}) =>
        /\ Len(sql.v) >= 2
        /\ sql.v[1] = "'" /\ sql.v[Len(sql.v)] = "'"
        /\ QuotesPaired(Inner(sql.v))

C9_Witness ==
    /\ pc = "returned" /\ val = PyStr(<<"a", "'", "\\">>)
    /\ sql = PyStr(<<"'", "a", "'", "'", "\\", "'">>)

RECURSIVE NullText(_)
\* the text of a value inside ARRAY[...] with NULL for every None leaf
NullText(v) ==
    IF v.t = "none" THEN <<"N", "U", "L", "L">>
    ELSE IF v.t = "list"
    THEN <<"[">> \o Join(<<",", " ">>, [k \in 1..Len(v.v) |-> NullText(v.v[k])])
                 \o <<"]">>
    ELSE _to_postgresql_value_helper(v).v

\* C10: None is rendered as the bare text NULL, as the value itself and as
\* every None leaf of a list, nested or not.
C10_NullBare ==
    pc = "returned" =>
        /\ val.t = "none" => sql = PyStr(<<"N", "U", "L", "L">>)
        /\ (val.t = "list" /\ Len(val.v) > 0) =>
               sql = PyStr(<<"A", "R", "R", "A", "Y">> \o NullText(val))

C10_Witness ==
    /\ pc = "returned"
    /\ val = PyList(<<PyList(<<None, PyStr(<<"'">>)>>), None>>)
    /\ sql = PyStr(<<"A", "R", "R", "A", "Y", "[", "[", "N", "U", "L", "L", ",", " ",
                     "'", "'", "'", "'", "]", ",", " ", "N", "U", "L", "L", "]">>)

EmptyArray == <<"'", "{", "}", "'">>

\* a non-empty list all of whose elements are empty lists
AllEmptyLists(v) ==
    /\ v.t = "list" /\ Len(v.v) > 0
    /\ \A k \in 1..Len(v.v) : v.v[k].t = "list" /\ Len(v.v[k].v) = 0

\* C11: a list is rendered as '{}' exactly when it has no element; a
\* non-empty list is rendered in ARRAY form, and one whose elements are all
\* empty lists as ARRAY[[], ..., []].
C11_EmptyArrayOnlyTopLevel ==
    (pc = "returned" /\ val.t = "list") =>
        /\ sql.v = EmptyArray <=> Len(val.v) = 0
        /\ Len(val.v) > 0 => StartsWith(sql.v, 1, <<"A", "R", "R", "A", "Y", "[">>)
        /\ AllEmptyLists(val) =>
               sql.v = <<"A", "R", "R", "A", "Y", "[">>
                       \o Join(<<",", " ">>, [k \in 1..Len(val.v) |-> <<"[", "]">>])
                       \o <<"]">>

C11_Witness ==
    /\ pc = "returned" /\ val = PyList(<<PyList(<<>>), PyList(<<>>)>>)
    /\ sql = PyStr(<<"A", "R", "R", "A", "Y", "[", "[", "]", ",", " ", "[", "]", "]">>)

\* the scalar rules: NULL for None, the quoted and escaped text of a str, the
\* quoted JSON text of a dict, str() of anything else
ScalarText(v) ==
    CASE v.t = "none" -> <<"N", "U", "L", "L">>
      [] v.t = "str" -> QuoteStr(v.v)
      [] v.t = "dict" -> QuoteStr(json_dumps(v))
      [] OTHER -> PyStrOf(v)

RECURSIVE Brackets(_)
\* the bracket structure of a list with its leaves as scalar texts
Brackets(v) ==
    IF v.t = "list"
    THEN <<"[">> \o Join(<<",", " ">>, [k \in 1..Len(v.v) |-> Brackets(v.v[k])])
                 \o <<"]">>
    ELSE ScalarText(v)

\* C12: a non-empty list is rendered as ARRAY followed by the bracket
\* structure of the list, elements separated by ", ", every leaf rendered by
\* the scalar rules; ["a", "b"] gives ARRAY['a', 'b'].
C12_ArrayStructure ==
    (pc = "returned" /\ val.t = "list" /\ Len(val.v) > 0) =>
        /\ sql.v = <<"A", "R", "R", "A", "Y">> \o Brackets(val)
        /\ val = PyList(<<PyStr(<<"a">>), PyStr(<<"b">>)>>) =>
               sql.v = <<"A", "R", "R", "A", "Y", "[", "'", "a", "'", ",", " ",
                         "'", "b", "'", "]">>

C12_Witness ==
    /\ pc = "returned"
    /\ val = PyList(<<PyDict(<< <<(<<"k">>), PyStr(<<"'">>)>> >>), PyBool(TRUE)>>)
    /\ sql = PyStr(<<"A", "R", "R", "A", "Y", "[", "'", "{", "\"", "k", "\"", ":", " ",
                     "\"", "'", "'", "\"", "}", "'", ",", " ", "T", "r", "u", "e",
                     "]">>)

CountChar(s, c) == Cardinality({i \in 1..Len(s) : s[i] = c})

\* C13: a dict is rendered as the str of its JSON text is: one literal in
\* single quotes whose inner single quotes are those of the JSON text, each
\* doubled; {"k": "'"} gives '{"k": "''"}'.
C13_DictAsJsonString ==
    (pc = "returned" /\ val.t = "dict") =>
        /\ sql.v = _to_postgresql_value(PyStr(json_dumps(val)))
        /\ sql.v[1] = "'" /\ sql.v[Len(sql.v)] = "'"
        /\ QuotesPaired(Inner(sql.v))
        /\ CountChar(Inner(sql.v), "'") = 2 * CountChar(json_dumps(val), "'")
        /\ val = PyDict(<< <<(<<"k">>), PyStr(<<"'">>)>> >>) =>
               sql.v = <<"'", "{", "\"", "k", "\"", ":", " ", "\"", "'", "'", "\"",
                         "}", "'">>

C13_Witness ==
    /\ pc = "returned" /\ val = PyDict(<< <<(<<"k">>), PyStr(<<"'">>)>> >>)
    /\ sql = PyStr(<<"'", "{", "\"", "k", "\"", ":", " ", "\"", "'", "'", "\"", "}",
                     "'">>)

\* C14: the serializer is total: for every value, also one of a type without
\* a rule and a list or a dict that holds one, the call returns a str and
\* raises nothing.
C14_Total ==
    /\ pc # "raised"
    /\ pc = "returned" => sql.t = "str"

\* the call went through the two checks of execute_values
ChecksPassed == Len(values) > 0 /\ page_size \in 1..PageSizeLimit

\* the row is not of the shape the mode takes
WrongShape(tpl, r) == IF NoTemplate(tpl) THEN r.t # "tuple" ELSE r.t # "dict"

ShapeError(tpl) ==
    IF NoTemplate(tpl)
    THEN Raise("ThanoSQLValueError",
               "If template is not provided, values must be given as a list of tuples")
    ELSE Raise("ThanoSQLValueError",
               "If template is provided, values must be given as a list of dictionaries")

PlaceholderError ==
    Raise("ThanoSQLValueError", "One and only one {{ val }} placeholder is required")

\* the least index of a row that satisfies P, or 0
FirstRow(P(_)) ==
    IF \E k \in 1..Len(values) : P(values[k])
    THEN CHOOSE k \in 1..Len(values) :
             P(values[k]) /\ \A j \in 1..(k - 1) : ~P(values[j])
    ELSE 0

IsWrongShape(r) == WrongShape(template, r)

\* C15 as stated: a call with a row of the wrong shape (a row that is no
\* tuple when no row template is given, no mapping when one is given) ends
\* with the ThanoSQLValueError that names the expected shape.
C15_ShapeErrorAlways ==
    (pc \in {"raised", "filled", "done"} /\ ChecksPassed
        /\ \E k \in 1..Len(values) :
               IF template.t = "none" THEN values[k].t # "tuple"
               ELSE values[k].t # "dict") =>
        result = IF template.t = "none" THEN ShapeError(None) ELSE ShapeError(template)

\* C15: a call with a row of the wrong shape for its mode (no row template
\* or an empty one: tuples; else mappings) returns no string and posts
\* nothing; with exactly one placeholder it raises the error of the first
\* row that fails, which is the ThanoSQLValueError naming the expected shape
\* when every row before the first wrong-shaped one renders.
C15_ShapeMismatchFirstFailure ==
    (ChecksPassed /\ FirstRow(IsWrongShape) > 0) =>
        /\ pc \notin {"end_for", "filled", "done"}
        /\ result.t # "str" /\ requests = <<>>
        /\ (pc = "raised" /\ Occurrences(query) = 1) =>
               LET k == FirstRow(IsWrongShape)
                   failed == {j \in 1..(k - 1) :
                                 RenderRowOf(template, values[j]).t = "raise"}
               IN  IF failed = {} THEN result = ShapeError(template)
                   ELSE /\ result # ShapeError(template)
                        /\ \E j \in failed : result = RenderRowOf(template, values[j])

\* a wrong-shaped row on the second page, after a page that rendered
C15_Witness ==
    /\ pc = "raised" /\ result = ShapeError(template)
    /\ page_size = 1 /\ Len(pages) = 2 /\ Len(completed_query_list) >= 1
    /\ FirstRow(IsWrongShape) = 2

\* C16: a call with an empty values raises ThanoSQLValueError in
\* execute_values: it never enters fill_query_placeholder, has no query
\* string and posts nothing.
C16_EmptyValues ==
    Len(values) = 0 =>
        /\ pc \in {"execute_values", "raised"}
        /\ result.t # "str" /\ requests = <<>>
        /\ split_query = Pending /\ pages = <<>>
        /\ pc = "raised" => result = Raise("ThanoSQLValueError", "Values cannot be empty")

C16_Witness ==
    /\ pc = "raised" /\ Len(values) = 0
    /\ Occurrences(query) = 1 /\ page_size = 1

PageSizeError ==
    Raise("ThanoSQLValueError", "Page size can only range from 1 to 100 (inclusive)")

\* C17: a call with a page_size below 1 or above 100 raises
\* ThanoSQLValueError in execute_values, and the paginator only ever runs
\* with a page_size of 1..100.
C17_PageSizeChecked ==
    /\ page_size \notin 1..PageSizeLimit =>
           /\ pc \in {"execute_values", "raised"}
           /\ pc = "raised" => result.t = "raise" /\ result.v = "ThanoSQLValueError"
           /\ (pc = "raised" /\ Len(values) > 0) => result = PageSizeError
    /\ (gen # NewGen \/ pages # <<>>
            \/ pc \in {"fill_query_placeholder", "next_page", "got_page", "rows"}) =>
           page_size \in 1..PageSizeLimit

C17_Witness ==
    /\ pc = "raised" /\ page_size = 0 /\ Len(values) > 0
    /\ result = PageSizeError /\ gen = NewGen

RECURSIVE TemplateNamesFrom(_, _)
\* the names between "{{" and "}}" in a row template, from position i on
TemplateNamesFrom(tpl, i) ==
    IF i > Len(tpl) THEN {}
    ELSE IF StartsWith(tpl, i, <<"{", "{">>)
    THEN LET j == Find(tpl, i + 2, <<"}", "}">>)
         IN  IF j = 0 THEN {}
             ELSE {RStrip(LStrip(SubSeq(tpl, i + 2, j - 1)))}
                      \cup TemplateNamesFrom(tpl, j + 2)
    ELSE TemplateNamesFrom(tpl, i + 1)

Keys(d) == {d.v[k][1] : k \in 1..Len(d.v)}

\* a mapping row without one of the fields the row template names
MissingField(r) ==
    /\ ~NoTemplate(template) /\ r.t = "dict"
    /\ ~(TemplateNamesFrom(template.v, 1) \subseteq Keys(r))

\* the number of rows rendered so far: those of the assembled pages and
\* those of the page in progress
RowsRendered ==
    IF split_query = Pending THEN 0
    ELSE (Len(completed_query_list) - Len(Present(Before))) * page_size
             + (IF pc = "rows" \/ pc = "raised" THEN Len(val_query_list) ELSE 0)

\* C18: in templated mode a call with a mapping row that lacks a field the
\* row template names returns no string and posts nothing, no rendered row
\* comes from such a row, and the call raises UndefinedError when that row is
\* the first to fail.
C18_StrictSubstitution ==
    (ChecksPassed /\ FirstRow(MissingField) > 0) =>
        /\ pc \notin {"end_for", "filled", "done"}
        /\ result.t # "str" /\ requests = <<>>
        /\ RowsRendered < FirstRow(MissingField)
        /\ (pc = "raised" /\ Occurrences(query) = 1
                /\ (FirstRow(IsWrongShape) = 0
                        \/ FirstRow(MissingField) < FirstRow(IsWrongShape))) =>
               result.t = "raise" /\ result.v = "UndefinedError"

\* the second row lacks "city", after a first page that rendered
C18_Witness ==
    /\ pc = "raised" /\ result.t = "raise" /\ result.v = "UndefinedError"
    /\ template = T_id_city /\ values = <<D_city, D_a>>
    /\ page_size = 1 /\ Len(pages) = 2 /\ RowsRendered = 1

\* C19 as stated: a call whose query has no or several placeholders ends
\* with the placeholder error whatever else is wrong with it.
C19_PlaceholderErrorAlways ==
    (pc = "raised" /\ Occurrences(query) # 1) => result = PlaceholderError

\* C19: in a call whose query has no or several placeholders no page is
\* taken and no row is rendered; the call raises the empty-values error if
\* values is empty, else the page-size error if page_size is outside 1..100,
\* else the placeholder error, also when rows have the wrong shape.
C19_PlaceholderBeforeRows ==
    Occurrences(query) # 1 =>
        /\ pc \in {"execute_values", "fill_query_placeholder", "raised"}
        /\ pages = <<>> /\ gen = NewGen
        /\ val_query_list = <<>> /\ completed_query_list = <<>>
        /\ requests = <<>>
        /\ pc = "raised" =>
               result = IF Len(values) = 0
                        THEN Raise("ThanoSQLValueError", "Values cannot be empty")
                        ELSE IF ~(page_size \in 1..PageSizeLimit) THEN PageSizeError
                        ELSE PlaceholderError

C19_Witness ==
    /\ pc = "raised" /\ result = PlaceholderError
    /\ Occurrences(query) = 2 /\ FirstRow(IsWrongShape) = 1

\* the position of the only placeholder of q
PlaceholderAt(q) == CHOOSE i \in 1..Len(q) : StartsWith(q, i, Placeholder)
LeftOf(q) == SubSeq(q, 1, PlaceholderAt(q) - 1)
RightOf(q) == SubSeq(q, PlaceholderAt(q) + Len(Placeholder), Len(q))
HasSemicolon(s) == \E i \in 1..Len(s) : s[i] = ";"

\* C20: in the segments _split_query returns, prefix and suffix are strs
\* without a ';', before is a str exactly when the text left of the
\* placeholder holds a ';' and after is a str exactly when the text right of
\* it does; an outer segment is None otherwise.
C20_SegmentPresence ==
    pc = "returned" =>
        /\ split_query.v[2].t = "str" /\ split_query.v[3].t = "str"
        /\ ~HasSemicolon(Prefix) /\ ~HasSemicolon(Suffix)
        /\ Before.t \in {"str", "none"} /\ After.t \in {"str", "none"}
        /\ Before.t = "str" <=> HasSemicolon(LeftOf(query))
        /\ After.t = "str" <=> HasSemicolon(RightOf(query))
        /\ Before.t = "str" => LeftOf(query) = Before.v \o Semicolon \o Prefix
        /\ After.t = "str" => RightOf(query) = Suffix \o Semicolon \o After.v
        /\ Before.t = "none" => LeftOf(query) = Prefix
        /\ After.t = "none" => RightOf(query) = Suffix

\* "a{{ val }};": no ';' on the left, so before is None; a ';' with nothing
\* behind it on the right, so after is the empty str
C20_Witness ==
    /\ pc = "returned" /\ query = <<"a">> \o Placeholder \o Semicolon
    /\ Before = None /\ Prefix = <<"a">> /\ Suffix = <<>> /\ After = PyStr(<<>>)

\* the position of the last ';' of s, or 0
LastSemicolon(s) ==
    IF HasSemicolon(s)
    THEN CHOOSE i \in 1..Len(s) : s[i] = ";" /\ \A j \in (i + 1)..Len(s) : s[j] # ";"
    ELSE 0

\* the position of the first ';' of s, or Len(s) + 1
FirstSemicolon(s) ==
    IF HasSemicolon(s)
    THEN CHOOSE i \in 1..Len(s) : s[i] = ";" /\ \A j \in 1..(i - 1) : s[j] # ";"
    ELSE Len(s) + 1

S_drop_table_x == <<"D", "R", "O", "P", " ", "T", "A", "B", "L", "E", " ", "x">>
S_insert_prefix == <<" ", "I", "N", "S", "E", "R", "T", " ", "I", "N", "T", "O", " ", "t", " ", "V", "A", "L", "U", "E", "S", " ">>
S_analyze_t == <<" ", "A", "N", "A", "L", "Y", "Z", "E", " ", "t">>

\* C21: for a query with one placeholder, prefix is the text from the last
\* ';' left of the placeholder (or the start) to the placeholder and before
\* is all that is left of that ';'; suffix is the text from the placeholder
\* to the first ';' right of it (or the end) and after is all that is right
\* of that ';'.  "DROP TABLE x; INSERT INTO t VALUES {{ val }}; ANALYZE t"
\* gives "DROP TABLE x", " INSERT INTO t VALUES ", "", " ANALYZE t".
C21_SegmentsByNearestSemicolon ==
    pc = "returned" =>
        LET l == LeftOf(query)
            r == RightOf(query)
            i == LastSemicolon(l)
            j == FirstSemicolon(r)
        IN  /\ Prefix = SubSeq(l, i + 1, Len(l))
            /\ i > 0 => Before = PyStr(SubSeq(l, 1, i - 1))
            /\ Suffix = SubSeq(r, 1, j - 1)
            /\ j <= Len(r) => After = PyStr(SubSeq(r, j + 1, Len(r)))
            /\ query = Q_multi =>
                   split_query = PyList(<<PyStr(S_drop_table_x), PyStr(S_insert_prefix),
                                          PyStr(<<>>), PyStr(S_analyze_t)>>)

C21_Witness ==
    /\ pc = "returned" /\ query = Q_multi
    /\ Before = PyStr(S_drop_table_x) /\ Prefix = S_insert_prefix
    /\ Suffix = <<>> /\ After = PyStr(S_analyze_t)

\* C22: a call that fails before the request has posted nothing and returns
\* no string, also when pages before the failing row were assembled; a
\* request is only ever made for a call that passed both checks, has one
\* placeholder, took every page and has no row of the wrong shape or without
\* a field of the row template.
C22_NoPartialOutput ==
    /\ pc = "raised" => requests = <<>> /\ result.t = "raise"
    /\ result.t = "str" => pc \in {"filled", "done"}
    /\ (requests # <<>> \/ result.t = "str") =>
           /\ ChecksPassed /\ Occurrences(query) = 1
           /\ Len(pages) = NumPages
           /\ FirstRow(IsWrongShape) = 0 /\ FirstRow(MissingField) = 0
           /\ Len(completed_query_list)
                  = Len(Present(Before)) + NumPages + Len(Present(After))
    /\ requests # <<>> => pc = "done" /\ requests = <<result.v>>

\* a row of the wrong shape in the last page, after a first page that was
\* assembled behind the before group
C22_Witness ==
    /\ pc = "raised" /\ requests = <<>> /\ result = ShapeError(template)
    /\ Len(values) = 3 /\ page_size = 2 /\ FirstRow(IsWrongShape) = 3
    /\ Len(completed_query_list) = 2 /\ Len(pages) = 2

\* the frame of the sequential model
Frame ==
    [pc |-> pc, query |-> query, values |-> values, template |-> template,
     page_size |-> page_size, split_query |-> split_query,
     completed_query_list |-> completed_query_list,
     val_query_list |-> val_query_list, row |-> row, gen |-> gen,
     pages |-> pages, result |-> result]

\* under Spec, every step inside fill_query_placeholder is FillStep
FillStepIsNext ==
    [][(pc \in {"fill_query_placeholder", "next_page", "got_page", "rows", "end_for"})
           => (Frame' = FillStep(Frame))]_vars

RECURSIVE RunAlone(_)
\* the result of the invocation of frame s run alone to its end
RunAlone(s) == IF Ended(s) THEN s.result ELSE RunAlone(FillStep(s))

\* C23: in every interleaving of the steps of concurrent invocations, an
\* invocation that has ended has the result (the string, or the exception)
\* that the same call has when run alone, the arguments of every invocation
\* are as they were given, and what an invocation has built so far is what
\* it has built at the same point when run alone.
C23_ConcurrentIndependent ==
    pc = "concurrent" =>
        \A i \in Invocations :
            LET s == calls[i]
                alone == NewFrame(s.query, s.values, s.template, s.page_size)
            IN  /\ alone \in CallInputs
                /\ Ended(s) => s.result = RunAlone(alone)
                /\ ~Ended(s) =>
                       RunAlone([s EXCEPT !.gen.page = page_var[PageVar(i)]])
                           = RunAlone(alone)

\* two different calls have both ended, one with its string and one with an
\* exception, after steps of each
C23_Witness ==
    /\ pc = "concurrent"
    /\ calls[1].pc = "filled" /\ calls[2].pc = "raised"
    /\ calls[1].query = Q_multi /\ calls[2].query = Q_edges
    /\ Len(calls[1].pages) = 2 /\ Len(calls[2].pages) = 1

\* the response is an error: not ok, or a parsed JSON body with an "error" key
IsErrorResponse(resp) ==
    /\ resp.t = "response"
    /\ \/ ~Ok(resp)
       \/ resp.json_type /\ resp.body.t = "dict" /\ PyIn(S_error, resp.body)

\* the class the claim gives a code
ClassOfCode(c) ==
    CASE c \in {400, 405, 422} -> "ThanoSQLValueError"
      [] c \in {401, 403} -> "ThanoSQLPermissionError"
      [] c = 404 -> "ThanoSQLNotFoundError"
      [] c = 409 -> "ThanoSQLAlreadyExistsError"
      [] c = 413 -> "ThanoSQLConnectionError"
      [] OTHER -> "ThanoSQLInternalError"

ThanoSQLErrors ==
    {"ThanoSQLValueError", "ThanoSQLPermissionError", "ThanoSQLNotFoundError",
     "ThanoSQLAlreadyExistsError", "ThanoSQLConnectionError", "ThanoSQLInternalError"}

\* the body's error is a mapping, and its code when it has an int one
ErrorOf(resp) == DictGet(resp.body, S_error, None)
HasBodyError(resp) ==
    resp.json_type /\ resp.body.t = "dict" /\ PyIn(S_error, resp.body)
HasBodyCode(resp) ==
    HasBodyError(resp) /\ ErrorOf(resp).t = "dict" /\ PyIn(S_code, ErrorOf(resp))

\* the class by the claim's rule: the body's error code when present, else
\* the HTTP status
ClaimedClass(resp) ==
    IF HasBodyCode(resp)
    THEN LET c == DictGet(ErrorOf(resp), S_code, None)
         IN  IF c.t = "int" THEN ClassOfCode(c.v) ELSE "ThanoSQLInternalError"
    ELSE ClassOfCode(resp.status_code)

Extension(f) ==
    LET name == SubSeq(f, RFind(f, "/") + 1, Len(f))
    IN  IF RFind(name, ".") > 1 THEN Lower(SubSeq(name, RFind(name, ".") + 1, Len(name)))
        ELSE <<>>

KnownExtensions ==
    {<<"c", "s", "v">>, <<"x", "l", "s">>, <<"x", "l", "s", "x">>, <<"x", "l", "s", "m">>, <<"x", "l", "s", "b">>, <<"o", "d", "f">>, <<"o", "d", "s">>, <<"o", "d", "t">>}

\* a call upload must refuse: a file (a non-empty name) together with a
\* DataFrame, neither of them, an if_exists outside the three values, or a file
\* whose extension is neither csv nor Excel-like
UploadInvalid(a) ==
    \/ Truthy(a.file) /\ a.df # None
    \/ ~Truthy(a.file) /\ a.df = None
    \/ a.if_exists \notin {PyStr(<<"f", "a", "i", "l">>),
                           PyStr(<<"a", "p", "p", "e", "n", "d">>),
                           PyStr(<<"r", "e", "p", "l", "a", "c", "e">>)}
    \/ Truthy(a.file) /\ Extension(a.file.v) \notin KnownExtensions

\* C25: upload raises ThanoSQLValueError and calls client._request not once
\* when a file and a DataFrame are both given, when neither is, when
\* if_exists is none of "fail", "append", "replace", or when the file's
\* extension is neither csv nor Excel-like; every other call makes exactly one
\* request, to the csv, excel or json upload path.
C25_UploadValidation ==
    pc # "upload" =>
        IF UploadInvalid(kwargs)
        THEN /\ pc = "raised" /\ requests = <<>>
             /\ result.t = "raise" /\ result.v = "ThanoSQLValueError"
             /\ response = None
        ELSE /\ Len(requests) = 1
             /\ requests[1].path =
                    IF ~Truthy(kwargs.file) THEN "upload/json"
                    ELSE IF Extension(kwargs.file.v) = <<"c", "s", "v">> THEN "upload/csv"
                    ELSE "upload/excel"

\* a .txt file alone, with a valid if_exists
C25_Witness ==
    /\ pc = "raised" /\ requests = <<>>
    /\ kwargs.file = PyStr(<<"a", ".", "t", "x", "t">>) /\ kwargs.df = None
    /\ kwargs.if_exists = PyStr(<<"f", "a", "i", "l">>)
    /\ result = Raise("ThanoSQLValueError",
                      "Invalid format: only CSV and Excel files possible.")

\* the elements pulled so far are the first gen.it of the input, each in one
\* place: in a page handed over, or in the page being filled
PulledOnceInOrder ==
    /\ gen.it <= Len(values)
    /\ Flatten(pages) \o (IF gen.pc = "for" THEN gen.page ELSE <<>>)
           = SubSeq(values, 1, gen.it)

\* when the k-th page is handed over, at most k * page_size elements are pulled
LazyAtHandOver ==
    pc \in {"got_page", "stopped"} => gen.it <= Len(pages) * page_size

\* a step pulls at most the next element, and no step pulls or changes
\* anything for a consumer that has stopped
PullsNextOrNothing ==
    /\ gen'.it \in {gen.it, gen.it + 1}
    /\ values' = values
    /\ pc = "stopped" =>
           /\ gen'.it = gen.it /\ gen'.page = gen.page
           /\ pages' = pages /\ pc' = "stopped"

\* C26: the paginator pulls the elements of its input once each and in
\* order, has pulled at most k * page_size elements when it hands over the
\* k-th page, and pulls nothing more and changes no page once the consumer
\* has stopped after a page.
C26_LazySinglePass ==
    [](PulledOnceInOrder /\ LazyAtHandOver) /\ [][PullsNextOrNothing]_vars

\* the consumer stopped after the first of several pages and the generator
\* was closed with the rest of the input not pulled
C26_Witness ==
    /\ pc = "stopped" /\ gen.pc = "closed"
    /\ Len(pages) = 1 /\ page_size = 2 /\ gen.it = 2 /\ Len(values) = 5

\* the call has ended: the query was posted or an exception was raised
CallEnded == pc \in {"done", "raised"}

\* C27: for a finite values and a positive page_size the paginator yields at
\* most one page per row and returns, and the call ends: it returns the
\* completed query, which is posted, or raises.
C27_Terminates ==
    /\ [](Len(pages) <= Len(values))
    /\ [](pc \in {"end_for", "filled", "done"} => gen.pc = "done")
    /\ <>CallEnded
    /\ (ChecksPassed /\ Occurrences(query) = 1) ~> (gen.pc = "done" \/ pc = "raised")

\* the paginator returned after three pages of one row
C27_Witness ==
    /\ pc = "done" /\ gen.pc = "done"
    /\ Len(values) = 3 /\ page_size = 1 /\ Len(pages) = 3

\* the number of ';' of s outside '...' literals: those with an even number
\* of quote characters before them
TopLevelSemicolons(s) ==
    Cardinality({i \in 1..Len(s) :
        /\ s[i] = ";"
        /\ Cardinality({j \in 1..i : s[j] = "'"}) % 2 = 0})

\* C28: row values are data: whatever text they hold (the placeholder token,
\* a ';', "{{ name }}"), the segments are those of the query, there is one
\* page per page_size rows, and the completed query has the statements of the
\* query with the placeholder's statement once per page and no other.
C28_ValuesAreData ==
    pc = "filled" =>
        /\ LeftOf(query) = Join(Semicolon, Present(Before) \o <<Prefix>>)
        /\ RightOf(query) = Join(Semicolon, <<Suffix>> \o Present(After))
        /\ Len(pages) = NumPages
        /\ Len(completed_query_list)
               = Len(Present(Before)) + NumPages + Len(Present(After))
        /\ TopLevelSemicolons(result.v) = TopLevelSemicolons(query) + NumPages - 1

\* C28 for calls without a row template, where every value is serialized
C28_PositionalValuesAreData ==
    NoTemplate(template) => C28_ValuesAreData

(***************************************************************************)
(* ThanoSQLService.create_input_dict and QueryService.execute.  Keyword    *)
(* arguments are a sequence of <<name, value>> pairs in call order; an      *)
(* object with a __dict__ is [t |-> "object", v |-> its fields].           *)
(***************************************************************************)

PyObject(fields) == [t |-> "object", v |-> fields]

\* lines 18-23: the JSON form of an object is the dict of its fields
convert_obj_to_dict(obj) == PyDict(obj.v)

\* bool(v) of a value
PyTruth(v) ==
    CASE v.t = "none" -> FALSE
      [] v.t = "int" -> v.v # 0
      [] v.t = "bool" -> v.v
      [] v.t \in {"str", "dict", "list", "tuple"} -> Len(v.v) > 0
      [] OTHER -> TRUE

\* a builder that keeps the arguments whose value is truthy
create_input_dictTruthy(kw) ==
    PyDict(SelectSeq([i \in 1..Len(kw) |->
                          IF kw[i][2].t = "object"
                          THEN <<kw[i][1], convert_obj_to_dict(kw[i][2])>>
                          ELSE kw[i]],
                     LAMBDA p : PyTruth(p[2])))

\* lines 25-33
create_input_dict(kw) ==
    PyDict([i \in 1..Len(SelectSeq(kw, LAMBDA p : p[2].t # "none")) |->
        LET p == SelectSeq(kw, LAMBDA q : q[2].t # "none")[i]
        IN  IF p[2].t = "object"
            THEN <<p[1], convert_obj_to_dict(p[2])>>
            ELSE p])


\* _query.py lines 130-144: the request execute() makes of its arguments
ExecuteRequest(a) ==
    [method |-> "post",
     path |-> <<"/", "q", "u", "e", "r", "y", "/">>,
     query_params |-> create_input_dict(<< <<<<"s", "c", "h", "e", "m", "a">>, a.schema>>,
                                           <<<<"t", "a", "b", "l", "e", "_", "n", "a", "m", "e">>, a.table_name>>,
                                           <<<<"o", "v", "e", "r", "w", "r", "i", "t", "e">>, a.overwrite>>,
                                           <<<<"m", "a", "x", "_", "r", "e", "s", "u", "l", "t", "s">>, a.max_results>> >>),
     payload |-> create_input_dict(<< <<<<"q", "u", "e", "r", "y", "_", "s", "t", "r", "i", "n", "g">>, a.query>>,
                                      <<<<"t", "e", "m", "p", "l", "a", "t", "e", "_", "i", "d">>, a.template_id>>,
                                      <<<<"t", "e", "m", "p", "l", "a", "t", "e", "_", "n", "a", "m", "e">>, a.template_name>>,
                                      <<<<"p", "a", "r", "a", "m", "e", "t", "e", "r", "s">>, a.parameters>> >>)]

\* _query.py lines 130-144: execute() up to the call of client._request
ExecuteCall ==
    /\ pc = "execute"
    /\ requests' = Append(requests, ExecuteRequest(kwargs))
    /\ pc' = "requested"
    /\ UNCHANGED <<val, helper_val, sql, query, values, template, page_size,
                   split_query, completed_query_list, val_query_list, row, gen,
                   pages, result, calls, page_var, response, stream, kwargs>>
    /\ UNCHANGED <<environ, ws>>

\* a direct call of the builder, as the other services make it
CreateInputDictCall ==
    /\ pc = "create_input_dict"
    /\ result' = create_input_dict(kwargs)
    /\ pc' = "returned"
    /\ UNCHANGED <<val, helper_val, sql, query, values, template, page_size,
                   split_query, completed_query_list, val_query_list, row, gen,
                   pages, requests, calls, page_var, response, stream, kwargs>>
    /\ UNCHANGED <<environ, ws>>

ExecuteArgs ==
    {[query |-> q, template_id |-> ti, template_name |-> tn, parameters |-> p,
      schema |-> s, table_name |-> tb, overwrite |-> o, max_results |-> m] :
        q \in {None, PyStr(<<"S", "E", "L", "E", "C", "T", " ", "1">>)},
        ti \in {None, PyInt(0)},
        tn \in {None, PyStr(<<>>)},
        p \in {None, PyDict(<<>>)},
        s \in {None, PyStr(<<>>), PyStr(<<"q", "m">>)},
        tb \in {None, PyStr(<<"t">>)},
        o \in {None, PyBool(FALSE), PyBool(TRUE)},
        m \in {None, PyInt(0), PyInt(100)}}

\* the values drawn for a direct call of the builder
InputValues ==
    {None, PyInt(0), PyInt(1), PyBool(FALSE), PyStr(<<>>), PyStr(<<"a">>),
     PyDict(<<>>), PyList(<<>>),
     PyObject(<< <<S_name, PyStr(<<"t">>)>> >>), PyObject(<<>>)}
BuilderArgs ==
    {<< <<<<"s", "c", "h", "e", "m", "a">>, a>>, <<S_name, b>> >> : a \in InputValues, b \in InputValues}
        \cup {<<>>}

InitExecute ==
    /\ \/ pc = "execute" /\ kwargs \in ExecuteArgs
       \/ pc = "create_input_dict" /\ kwargs \in BuilderArgs
    /\ environ = NoSettings /\ ws = <<>>
    /\ val = None /\ helper_val = None /\ sql = Pending
    /\ query = <<>> /\ values = <<>> /\ template = None /\ page_size = 1
    /\ split_query = Pending
    /\ completed_query_list = <<>> /\ val_query_list = <<>> /\ row = 0
    /\ gen = NewGen /\ pages = <<>>
    /\ result = Pending
    /\ requests = <<>>
    /\ calls = <<>>
    /\ page_var = <<>>
    /\ response = None
    /\ stream = FALSE

NextExecute == ExecuteCall \/ CreateInputDictCall \/ ServiceResponse

SpecExecute == InitExecute /\ [][NextExecute]_vars

\* the arguments of a call with a value other than None, in call order
NotNone(kw) == SelectSeq(kw, LAMBDA p : p[2] # None)

\* the built dict is what the claim says of the arguments kw
KeepsNotNone(d, kw) ==
    /\ d.t = "dict"
    /\ Len(d.v) = Len(NotNone(kw))
    /\ \A i \in 1..Len(d.v) :
           /\ d.v[i][1] = NotNone(kw)[i][1]
           /\ d.v[i][2] = IF NotNone(kw)[i][2].t = "object"
                          THEN PyDict(NotNone(kw)[i][2].v)
                          ELSE NotNone(kw)[i][2]

\* execute's arguments as the two keyword lists of lines 131-142
QueryParamsOf(a) ==
    << <<<<"s", "c", "h", "e", "m", "a">>, a.schema>>, <<<<"t", "a", "b", "l", "e", "_", "n", "a", "m", "e">>, a.table_name>>,
       <<<<"o", "v", "e", "r", "w", "r", "i", "t", "e">>, a.overwrite>>, <<<<"m", "a", "x", "_", "r", "e", "s", "u", "l", "t", "s">>, a.max_results>> >>
PayloadOf(a) ==
    << <<<<"q", "u", "e", "r", "y", "_", "s", "t", "r", "i", "n", "g">>, a.query>>, <<<<"t", "e", "m", "p", "l", "a", "t", "e", "_", "i", "d">>, a.template_id>>,
       <<<<"t", "e", "m", "p", "l", "a", "t", "e", "_", "n", "a", "m", "e">>, a.template_name>>, <<<<"p", "a", "r", "a", "m", "e", "t", "e", "r", "s">>, a.parameters>> >>

WordChars ==
    {"a", "b", "c", "d", "e", "f", "g", "h", "i", "j", "k", "l", "m", "n", "o",
     "p", "q", "r", "s", "t", "u", "v", "w", "x", "y", "z",
     "A", "B", "C", "D", "E", "F", "G", "H", "I", "J", "K", "L", "M", "N", "O",
     "P", "Q", "R", "S", "T", "U", "V", "W", "X", "Y", "Z",
     "0", "1", "2", "3", "4", "5", "6", "7", "8", "9", "_"}

\* the end of the longest run of characters of cs in s from position i
SkipWhile(s, i, cs) ==
    CHOOSE j \in i..(Len(s) + 1) :
        /\ \A k \in i..(j - 1) : s[k] \in cs
        /\ j = Len(s) + 1 \/ s[j] \notin cs

\* parse.py lines 3-8: ^\s*\w*://\w*
is_url(s) ==
    StartsWith(s, SkipWhile(s, SkipWhile(s, 1, {" "}), WordChars), <<":", "/", "/">>)

S_API_TOKEN_eq == <<"A", "P", "I", "_", "T", "O", "K", "E", "N", "=">>

\* parse.py lines 11-16: ^\s*API_TOKEN=\w*
is_api_token(s) == StartsWith(s, SkipWhile(s, 1, {" "}), S_API_TOKEN_eq)

\* str.strip()
strip(s) == RStrip(LStrip(s))

\* s.split(sep)[-1]
SplitLast(s, sep) ==
    LET pieces == SplitFrom(s, sep, 1, <<>>) IN pieces[Len(pieces)]

Quotes == {"'", "\""}

\* the ends j of the matches of ('|")\[[^']*\]('|") that start at i
LiteralEnds(s, i) ==
    IF i + 1 <= Len(s) /\ s[i] \in Quotes /\ s[i + 1] = "["
    THEN {j \in (i + 3)..Len(s) :
              /\ s[j - 1] = "]" /\ s[j] \in Quotes
              /\ \A k \in (i + 2)..(j - 2) : s[k] # "'"}
    ELSE {}

Max(S) == CHOOSE x \in S : \A y \in S : y <= x

RECURSIVE RemoveLiterals(_, _)
\* line 22: re.sub of the pattern by "", from position i: the leftmost match,
\* the longest one at its start, then on from its end
RemoveLiterals(s, i) ==
    IF i > Len(s) THEN <<>>
    ELSE IF LiteralEnds(s, i) # {}
         THEN RemoveLiterals(s, Max(LiteralEnds(s, i)) + 1)
         ELSE <<s[i]>> \o RemoveLiterals(s, i + 1)

\* parse.py lines 19-23
is_multiple_queries(query_string) ==
    \E k \in 1..Len(RemoveLiterals(query_string, 1)) :
        RemoveLiterals(query_string, 1)[k] = ";"

DEFAULT_API_URL == <<"w", "s", ":", "/", "/", "N", "o", "n", "e", "/", "w", "s", "/", "v", "1", "/", "q", "u", "e", "r", "y">>

\* os.getenv(name, default)
GetEnv(env, name, default) == IF env[name] = None THEN default ELSE env[name]

\* magic.py lines 53-90: the call up to request_thanosql_engine.  The outcome
\* is a return, an exception, or the url and message for the engine.
Thanosql(line, cell, env) ==
    IF Truthy(line) /\ is_url(line.v)
    THEN [t |-> "return", env |-> [env EXCEPT !.API_URL = PyStr(strip(line.v))]]
    ELSE IF Truthy(line) /\ is_api_token(line.v)
    THEN [t |-> "return",
          env |-> [env EXCEPT !.API_TOKEN =
                       PyStr(SplitLast(strip(line.v), S_API_TOKEN_eq))]]
    ELSE LET c == IF Truthy(line) THEN line ELSE cell
             api_url == GetEnv(env, "API_URL", PyStr(DEFAULT_API_URL))
             api_token == GetEnv(env, "API_TOKEN", None)
         IN  IF ~Truthy(c) THEN [t |-> "return", env |-> env]
             ELSE IF ~Truthy(api_token)
             THEN Raise("ThanoSQLConnectionError", "An API Token is required.")
             ELSE IF is_multiple_queries(c.v)
             THEN Raise("ThanoSQLSyntaxError", "Multiple Queries are not supported.")
             ELSE [t |-> "engine",
                   url |-> api_url.v \o <<"?", "a", "p", "i", "_", "t", "o", "k", "e", "n", "=">> \o api_token.v,
                   message |-> json_dumps(PyDict(<< <<<<"q", "u", "e", "r", "y", "_", "s", "t", "r", "i", "n", "g">>, c>> >>))]

\* the lines and cells drawn for a call: a line magic has no cell, a cell
\* magic may have both
MagicLines ==
    {PyStr(<<" ", "h", ":", "/", "/", "x", " ">>),
     PyStr(<<"A", "P", "I", "_", "T", "O", "K", "E", "N", "=", "a", "b", "c">>),
     PyStr(<<" ", "A", "P", "I", "_", "T", "O", "K", "E", "N", "=">>),
     PyStr(<<"a", ";", "b">>),
     PyStr(<<"S", "E", "L", "E", "C", "T", " ", "1">>),
     PyStr(<<>>)}
MagicCells ==
    {None,
     PyStr(<<>>),
     PyStr(<<"S", "E", "L", "E", "C", "T", " ", "1">>),
     PyStr(<<"S", "E", "L", "E", "C", "T", " ", "'", "[", "a", ";", "b", "]", "'">>),
     PyStr(<<"\"", "[", "a", "]", "\"", ";", "\"", "[", "b", "]", "\"">>),
     PyStr(<<"'", "[", "a", ";", "b", "]", "\"">>),
     PyStr(<<"'", "[", "a", "]", "'", ";", "'", "[", "b", "]", "'">>)}
MagicArgs ==
    {[line |-> l, cell |-> None] : l \in MagicLines}
        \cup {[line |-> None, cell |-> c] : c \in MagicCells}
        \cup {[line |-> PyStr(<<"S", "E", "L", "E", "C", "T", " ", "1">>), cell |-> PyStr(<<"a", ";", "b">>)],
              [line |-> PyStr(<<"A", "P", "I", "_", "T", "O", "K", "E", "N", "=", "a", "b", "c">>), cell |-> PyStr(<<"S", "E", "L", "E", "C", "T", " ", "1">>)]}

MaxWsOps == 3

\* lines 53-90: a call of the magic, up to ws.connect
ThanosqlCall ==
    /\ pc = "idle"
    /\ Len(ws) < MaxWsOps
    /\ \E a \in MagicArgs :
           LET r == Thanosql(a.line, a.cell, environ)
           IN  /\ kwargs' = a
               /\ environ' = IF r.t = "return" THEN r.env ELSE environ
               /\ result' = IF r.t = "return" THEN None ELSE r
               /\ pc' = IF r.t = "engine" THEN "connect" ELSE "idle"
    /\ UNCHANGED <<val, helper_val, sql, query, values, template, page_size,
                   split_query, completed_query_list, val_query_list, row, gen,
                   pages, requests, calls, page_var, response, stream, ws>>

\* lines 20-25: ws.connect raises, or the query is sent
WsConnect ==
    /\ pc = "connect"
    /\ \E connected \in BOOLEAN :
           IF connected
           THEN /\ ws' = ws \o <<[op |-> "connect", url |-> result.url],
                                 [op |-> "send", data |-> result.message]>>
                /\ pc' = "recv"
                /\ UNCHANGED result
           ELSE /\ ws' = Append(ws, [op |-> "connect", url |-> result.url])
                /\ result' = Raise("ThanoSQLConnectionError",
                                   "Could not connect to the Websocket")
                /\ pc' = "idle"
    /\ UNCHANGED <<val, helper_val, sql, query, values, template, page_size,
                   split_query, completed_query_list, val_query_list, row, gen,
                   pages, requests, calls, page_var, response, stream, kwargs,
                   environ>>

\* the outputs drawn for ws.recv(): a message, a result, an error, another
\* output type, and Ctrl-C while waiting
EngineOutputs ==
    {[output_type |-> "MESSAGE", output_message |-> "m"],
     [output_type |-> "RESULT", output_message |-> "r"],
     [output_type |-> "ERROR", output_message |-> "e"],
     [output_type |-> "PING", output_message |-> ""],
     [output_type |-> "KeyboardInterrupt"]}

\* lines 27-41: one round of the receive loop
WsRecv ==
    /\ pc = "recv"
    /\ \E output \in EngineOutputs :
           /\ response' = output
           /\ CASE output.output_type = "RESULT" ->
                       /\ result' = [t |-> "result", v |-> output.output_message]
                       /\ pc' = "idle"
                       /\ UNCHANGED ws
                [] output.output_type = "ERROR" ->
                       /\ result' = Raise("ThanoSQLInternalError", output.output_message)
                       /\ pc' = "idle"
                       /\ UNCHANGED ws
                [] output.output_type = "KeyboardInterrupt" ->
                       /\ ws' = Append(ws, [op |-> "close"])
                       /\ result' = Raise("ThanoSQLConnectionError", "KeyboardInterrupt")
                       /\ pc' = "idle"
                [] OTHER -> UNCHANGED <<result, pc, ws>>
    /\ UNCHANGED <<val, helper_val, sql, query, values, template, page_size,
                   split_query, completed_query_list, val_query_list, row, gen,
                   pages, requests, calls, page_var, stream, kwargs, environ>>

InitMagic ==
    /\ pc = "idle"
    /\ kwargs = [line |-> None, cell |-> None]
    /\ environ \in {NoSettings, [NoSettings EXCEPT !.API_TOKEN = PyStr(<<"k">>)]}
    /\ ws = <<>>
    /\ val = None /\ helper_val = None /\ sql = Pending
    /\ query = <<>> /\ values = <<>> /\ template = None /\ page_size = 1
    /\ split_query = Pending
    /\ completed_query_list = <<>> /\ val_query_list = <<>> /\ row = 0
    /\ gen = NewGen /\ pages = <<>>
    /\ result = Pending
    /\ requests = <<>>
    /\ calls = <<>>
    /\ page_var = <<>>
    /\ response = None
    /\ stream = FALSE

NextMagic == ThanosqlCall \/ WsConnect \/ WsRecv

SpecMagic == InitMagic /\ [][NextMagic]_vars

\* the query text of a call: the line when there is one, else the cell
QueryText(a) == IF Truthy(a.line) THEN a.line ELSE a.cell
SetsUrl(a) == Truthy(a.line) /\ is_url(a.line.v)
SetsToken(a) == Truthy(a.line) /\ ~is_url(a.line.v) /\ is_api_token(a.line.v)

\* s[i..j] is a quoted bracket literal: a quote, "[", text without that
\* quote, "]", the same quote
BracketLiteral(s, i, j) ==
    /\ 1 <= i /\ i + 3 <= j /\ j <= Len(s)
    /\ s[i] \in Quotes /\ s[i + 1] = "[" /\ s[j - 1] = "]" /\ s[j] = s[i]
    /\ \A k \in (i + 2)..(j - 2) : s[k] # s[i]

SemicolonOutsideLiteral(s) ==
    \E p \in 1..Len(s) :
        /\ s[p] = ";"
        /\ ~\E i \in 1..(p - 1), j \in (p + 1)..Len(s) : BracketLiteral(s, i, j)

\* s[i..j] runs from a quote and "[" to a "]" and a quote, whichever quotes
\* they are, with no ' in between
BracketSpan(s, i, j) ==
    /\ 1 <= i /\ i + 3 <= j /\ j <= Len(s)
    /\ s[i] \in Quotes /\ s[i + 1] = "[" /\ s[j - 1] = "]" /\ s[j] \in Quotes
    /\ \A k \in (i + 2)..(j - 2) : s[k] # "'"

SemicolonOutsideSpan(s) ==
    \E p \in 1..Len(s) :
        /\ s[p] = ";"
        /\ ~\E i \in 1..(p - 1), j \in (p + 1)..Len(s) : BracketSpan(s, i, j)

\* a call of the magic with the arguments kwargs': a setting line changes
\* that setting and nothing else, a query without a token or with a ';'
\* that is Outside raises, and the websocket is not touched
CallChecks(Outside(_)) ==
    pc = "idle" =>
        LET a == kwargs'
            q == QueryText(a)
        IN  /\ SetsUrl(a) =>
                /\ ws' = ws /\ pc' = "idle" /\ result' = None
                /\ environ' = [environ EXCEPT !.API_URL = PyStr(strip(a.line.v))]
            /\ SetsToken(a) =>
                /\ ws' = ws /\ pc' = "idle" /\ result' = None
                /\ environ'.API_URL = environ.API_URL
                /\ environ'.API_TOKEN.t = "str"
            /\ ~SetsUrl(a) /\ ~SetsToken(a) /\ Truthy(q) /\ ~Truthy(environ.API_TOKEN) =>
                /\ result'.t = "raise" /\ result'.v = "ThanoSQLConnectionError"
                /\ ws' = ws /\ pc' = "idle" /\ environ' = environ
            /\ ~SetsUrl(a) /\ ~SetsToken(a) /\ Truthy(q) /\ Truthy(environ.API_TOKEN)
                 /\ Outside(q.v) =>
                /\ result'.t = "raise" /\ result'.v = "ThanoSQLSyntaxError"
                /\ ws' = ws /\ pc' = "idle" /\ environ' = environ

\* the websocket is used only by a call that passed both checks
SendAfterChecks(Outside(_)) ==
    ws' # ws =>
        /\ ~SetsUrl(kwargs) /\ ~SetsToken(kwargs)
        /\ Truthy(QueryText(kwargs))
        /\ Truthy(environ.API_TOKEN)
        /\ ~Outside(QueryText(kwargs).v)

\* C30: in the %thanosql magic a query goes to the engine only after both
\* checks pass: without an API token the call raises ThanoSQLConnectionError,
\* with a ';' outside a quoted bracket literal it raises ThanoSQLSyntaxError,
\* both before any websocket connection is opened; a line that sets the API
\* URL or the API token only updates that setting and sends nothing.
C30_ChecksBeforeSend ==
    [][CallChecks(SemicolonOutsideLiteral) /\ SendAfterChecks(SemicolonOutsideLiteral)]_vars

\* C30 with "outside" read as outside every span from a quote and "[" to a
\* "]" and a quote
C30_ChecksBeforeSendOutsideSpans ==
    [][CallChecks(SemicolonOutsideSpan) /\ SendAfterChecks(SemicolonOutsideSpan)]_vars
====
